---- MODULE Spec2Model ----
(***************************************************************************)
(* A model of the Lox tree-walking interpreter: the Environment chain,     *)
(* the runtime callables, the Interpreter visitor, the Resolve pre-pass    *)
(* and the Parser, with the drivers that call them.                        *)
(*                                                                         *)
(* Every method of the source is an operator of the same name that takes   *)
(* the object's state as a record and returns the state after the call.    *)
(* A JavaScript exception in flight is the field `thrown` of that record:  *)
(* "none", "error" (an Error / SyntaxError / TypeError) or "return" (a     *)
(* LoxReturn, whose value is the field `ret`).                             *)
(***************************************************************************)
EXTENDS Integers, Sequences, FiniteSets, TLC

(***************************************************************************)
(* Bounds of the model.                                                    *)
(***************************************************************************)
\* iterations one `while` statement may run before the model cuts the run
MaxLoop == 3
\* the numbers the generated programs use as literals are 0 .. MaxNum
MaxNum == 1

(***************************************************************************)
(* Runtime values.  A value is [k |-> kind, v |-> payload]; JavaScript     *)
(* `null` is Nil.  Functions, classes and instances are references into    *)
(* the heaps of the interpreter state, so === on them is identity.         *)
(***************************************************************************)
Nil == [k |-> "nil", v |-> 0]
Bool(b) == [k |-> "bool", v |-> b]
Num(n) == [k |-> "num", v |-> n]
Str(s) == [k |-> "str", v |-> s]
FunRef(r) == [k |-> "fun", v |-> r]
ClassRef(r) == [k |-> "class", v |-> r]
InstanceRef(r) == [k |-> "instance", v |-> r]
\* the object literal { arity: () => 0, call: () => Date.now() }
NativeClock == [k |-> "native", v |-> "clock"]
\* JavaScript undefined: what args[i] is past the end of args
Undefined == [k |-> "undefined", v |-> 0]

(***************************************************************************)
(* The AST.  `null` children are NoExpr / NoStmt.  Variable, Assign, This  *)
(* and Super nodes carry `id`, the identity of the expression object (the  *)
(* key of the interpreter's `locals` map).                                 *)
(***************************************************************************)
NoExpr == [t |-> "null"]
NoStmt == [t |-> "null"]
LiteralExpression(value) == [t |-> "Literal", value |-> value]
VariableExpression(id, name) == [t |-> "Variable", id |-> id, name |-> name]
AssignExpression(id, name, value) ==
  [t |-> "Assign", id |-> id, name |-> name, value |-> value]
BinaryExpression(left, operator, right) ==
  [t |-> "Binary", left |-> left, operator |-> operator, right |-> right]
LogicalExpression(left, operator, right) ==
  [t |-> "Logical", left |-> left, operator |-> operator, right |-> right]
GroupingExpression(expression) == [t |-> "Grouping", expression |-> expression]
UnaryExpression(operator, right) ==
  [t |-> "Unary", operator |-> operator, right |-> right]
CallExpression(callee, args) == [t |-> "Call", callee |-> callee, args |-> args]
GetExpression(object, name) == [t |-> "Get", object |-> object, name |-> name]
SetExpression(object, name, value) ==
  [t |-> "Set", object |-> object, name |-> name, value |-> value]
ThisExpression(id) == [t |-> "This", id |-> id, name |-> "this"]
SuperExpression(id, method) ==
  [t |-> "Super", id |-> id, name |-> "super", method |-> method]

ExpressionStatement(expression) == [t |-> "Expression", expression |-> expression]
PrintStatement(expression) == [t |-> "Print", expression |-> expression]
VariableStatement(name, initializer) ==
  [t |-> "Var", name |-> name, initializer |-> initializer]
BlockStatement(stmts) == [t |-> "Block", stmts |-> stmts]
IfStatement(condition, thenBranch, elseBranch) ==
  [t |-> "If", condition |-> condition, thenBranch |-> thenBranch,
   elseBranch |-> elseBranch]
WhileStatement(condition, body) ==
  [t |-> "While", condition |-> condition, body |-> body]
FunctionStatement(name, params, body) ==
  [t |-> "Function", name |-> name, params |-> params, body |-> body]
ReturnStatement(value) == [t |-> "Return", value |-> value]
ClassStatement(name, superClass, methods) ==
  [t |-> "Class", name |-> name, superClass |-> superClass, methods |-> methods]

(***************************************************************************)
(* Environment (src/interpreter/lox_class.ts:84-139).  Environment objects *)
(* live in the heap st.envs; a reference is an index, 0 is null.           *)
(***************************************************************************)
\* new Environment(enclosing): the new object is the last of st.envs
NewEnvironment(st, enclosing) ==
  [st EXCEPT !.envs = Append(@, [enclosing |-> enclosing, values |-> << >>])]

\* this.values.has(name)
EnvHas(st, e, name) == name \in DOMAIN st.envs[e].values

\* this.values.set(name, value)
EnvSet(st, e, name, value) ==
  [st EXCEPT !.envs[e].values =
     [n \in (DOMAIN @) \cup {name} |-> IF n = name THEN value ELSE @[n]]]

\* throw new Error(...): a runtime error starts to unwind
ThrowError(st, msg) ==
  [st EXCEPT !.thrown = "error",
             !.trace = Append(@, [e |-> "throw", msg |-> msg])]

define(st, e, name, value) == EnvSet(st, e, name, value)

\* assign that looks at this environment only
assign_ThisOnly(st, e, name, value) ==
  IF EnvHas(st, e, name) THEN EnvSet(st, e, name, value)
  ELSE ThrowError(st, "Undefined variable")

RECURSIVE assign(_, _, _, _)
assign(st, e, name, value) ==
  IF EnvHas(st, e, name) THEN EnvSet(st, e, name, value)
  ELSE IF st.envs[e].enclosing # 0
       THEN assign(st, st.envs[e].enclosing, name, value)
       ELSE ThrowError(st, "Undefined variable")

\* x ?? null
OrNull(x) == IF x.k = "undefined" THEN [k |-> "nil", v |-> 0] ELSE x

\* get returns the state with the value read in st.v, or the error thrown
RECURSIVE get(_, _, _)
get(st, e, name) ==
  IF EnvHas(st, e, name)
  THEN [st EXCEPT !.v = OrNull(st.envs[e].values[name])]
  ELSE IF st.envs[e].enclosing # 0
       THEN get(st, st.envs[e].enclosing, name)
       ELSE ThrowError(st, "Undefined variable")

\* environment = environment?.enclosing ?? null, `distance` times
RECURSIVE ancestor(_, _, _)
ancestor(st, e, distance) ==
  IF distance = 0 THEN e
  ELSE ancestor(st, IF e = 0 THEN 0 ELSE st.envs[e].enclosing, distance - 1)

\* this.ancestor(distance)?.values.get(name) ?? null
getAt(st, e, distance, name) ==
  LET a == ancestor(st, e, distance)
  IN IF a # 0 /\ EnvHas(st, a, name)
     THEN OrNull(st.envs[a].values[name]) ELSE [k |-> "nil", v |-> 0]

\* this.ancestor(distance)?.values.set(name.lexeme, value)
assignAt(st, e, distance, name, value) ==
  LET a == ancestor(st, e, distance)
  IN IF a # 0 THEN EnvSet(st, a, name, value) ELSE st

(***************************************************************************)
(* Interpreter (src/interpreter/lox_instance.ts:60-358).  The state of an  *)
(* Interpreter object and of everything it allocates is one record:        *)
(*   envs, funs, classes, instances  the heaps of objects                  *)
(*   environment   this.environment; this.globals is always reference 1   *)
(*   locals        this.locals, expression id -> depth                     *)
(*   out           the lines written by console.log                        *)
(*   thrown, ret   the exception in flight ("cut": the model stopped a     *)
(*                 loop after MaxLoop iterations)                          *)
(*   v, args       the value / argument list an evaluation has produced    *)
(*   now           what Date.now() answers                                 *)
(*   trace         history of the run, read only by the properties         *)
(***************************************************************************)
globals == 1

NewInterpreter(now) ==
  [envs |-> << [enclosing |-> 0, values |-> ("clock" :> NativeClock)] >>,
   environment |-> globals,
   funs |-> << >>, classes |-> << >>, instances |-> << >>,
   locals |-> << >>,
   out |-> << >>,
   thrown |-> "none", ret |-> Nil, v |-> Nil, args |-> << >>,
   now |-> now,
   trace |-> << >>]

Value(st, value) == [st EXCEPT !.v = value]
Log(st, event) == [st EXCEPT !.trace = Append(@, event)]

\* the environment of the chain starting at e that holds name, 0 when none
RECURSIVE EnvFind(_, _, _)
EnvFind(st, e, name) ==
  IF e = 0 THEN 0
  ELSE IF EnvHas(st, e, name) THEN e
  ELSE EnvFind(st, st.envs[e].enclosing, name)

\* typeof x === "number"; Float is a number the model does not compute
\* (a fraction, Infinity, NaN)
Float == [k |-> "float", v |-> 0]
IsNumber(x) == x.k \in {"num", "float"}

isLoxCallable(object) == object.k \in {"fun", "class", "native"}

\* truthiness as the host has it, !!object: 0, NaN and "" are false too
isTruthy_Host(object) ==
  IF object.k = "nil" THEN FALSE
  ELSE IF object.k = "bool" THEN object.v
  ELSE IF object.k = "num" THEN object.v # 0
  ELSE IF object.k = "float" THEN FALSE
  ELSE IF object.k = "str" THEN object.v # ""
  ELSE TRUE

isTruthy(object) ==
  IF object.k = "nil" THEN FALSE
  ELSE IF object.k = "bool" THEN object.v
  ELSE TRUE

\* a === b
isEqual(a, b) == a.k = b.k /\ a.k # "float" /\ a.v = b.v

\* object.toString(), also what a template literal does to a value
JsToString(st, object) ==
  CASE object.k = "nil" -> "null"
    [] object.k = "bool" -> IF object.v THEN "true" ELSE "false"
    [] object.k = "num" -> ToString(object.v)
    [] object.k = "float" -> "NaN"
    [] object.k = "str" -> object.v
    [] object.k = "class" -> st.classes[object.v].name
    [] object.k = "instance" ->
         st.classes[st.instances[object.v].cls].name \o " instance"
    [] OTHER -> "[object Object]"

stringify(st, object) ==
  IF object.k = "nil" THEN "nil" ELSE JsToString(st, object)

resolve(st, id, depth) ==
  [st EXCEPT !.locals =
     [i \in (DOMAIN @) \cup {id} |-> IF i = id THEN depth ELSE @[i]]]

RECURSIVE execute(_, _), evaluate(_, _), executeBlock(_, _, _),
          ExecuteAll(_, _, _), EvaluateArgs(_, _, _, _), WhileLoop(_, _, _)

(***************************************************************************)
(* LoxClass (src/interpreter/lox_class.ts:7-47).  A class object is        *)
(* [name, superClass, methods]; a constructor argument that the caller     *)
(* left out is JavaScript `undefined`: superClass = -1, methods.defined =  *)
(* FALSE.  findMethod leaves the method (or Nil for null) in st.v.         *)
(*                                                                         *)
(* A method body that runs several calls in sequence is written as local   *)
(* steps, each taking the state the call before it returned.               *)
(***************************************************************************)
\* findMethod that asks the superclass first: an ancestor's method wins
RECURSIVE LoxClass_findMethod_Ancestor(_, _, _)
LoxClass_findMethod_Ancestor(st, c, name) ==
  LET cls == st.classes[c]
      Own(s1) ==
        IF s1.thrown # "none" \/ s1.v.k # "nil" THEN s1
        ELSE IF name \in DOMAIN cls.methods.map
        THEN Value(s1, FunRef(cls.methods.map[name]))
        ELSE Value(s1, Nil)
  IN Own(IF cls.superClass > 0
         THEN LoxClass_findMethod_Ancestor(st, cls.superClass, name)
         ELSE Value(st, Nil))

RECURSIVE LoxClass_findMethod(_, _, _)
LoxClass_findMethod(st, c, name) ==
  LET cls == st.classes[c]
  IN IF ~cls.methods.defined
     THEN ThrowError(st, "TypeError: this.methods is undefined")
     ELSE IF name \in DOMAIN cls.methods.map
     THEN Value(st, FunRef(cls.methods.map[name]))
     ELSE IF cls.superClass = -1
     THEN ThrowError(st, "TypeError: this.superClass is undefined")
     ELSE IF cls.superClass # 0
     THEN LoxClass_findMethod(st, cls.superClass, name)
     ELSE Value(st, Nil)

\* LoxFunction.arity
LoxFunction_arity(st, f) == Len(st.funs[f].declaration.params)

\* the arity is left in st.v as a number
LoxClass_arity(st, c) ==
  LET Initializer(s1) ==
        IF s1.thrown # "none" THEN s1
        ELSE IF s1.v.k # "nil"
        THEN Value(s1, Num(LoxFunction_arity(s1, s1.v.v)))
        ELSE Value(s1, Num(0))
  IN Initializer(LoxClass_findMethod(st, c, "init"))

(***************************************************************************)
(* LoxFunction (src/interpreter/lox_function.ts:43-83).  A function object *)
(* is [declaration, closure, isInitializer].                               *)
(***************************************************************************)
RECURSIVE DefineParams(_, _, _, _, _)
DefineParams(st, environment, params, args, i) ==
  IF i > Len(params) THEN st
  ELSE DefineParams(define(st, environment, params[i],
                           IF i <= Len(args) THEN args[i] ELSE Undefined),
                    environment, params, args, i + 1)

\* the history entry of one call of function f: the environment created
\* for it (the last of st.envs), what that environment encloses, and how
\* many environments existed before
Called(st, f, existing) ==
  Log(st, [e |-> "call", f |-> f, environment |-> Len(st.envs),
           enclosing |-> st.envs[Len(st.envs)].enclosing,
           existing |-> existing])

\* LoxFunction.call as it was before functions closed over their scope
\* (src/unnamed/part_005): new Environment(interpreter.globals)
LoxFunction_call_Globals(st, f, args) ==
  LET fn == st.funs[f]
      Catch(s3) ==
        IF s3.thrown = "cut" THEN s3
        ELSE IF s3.thrown = "return"
        THEN [s3 EXCEPT !.thrown = "none", !.v = s3.ret]
        ELSE [s3 EXCEPT !.thrown = "none", !.v = Nil]
      Try(s1) ==
        Catch(executeBlock(fn.declaration.body, Len(s1.envs),
                DefineParams(s1, Len(s1.envs), fn.declaration.params, args, 1)))
  IN Try(Called(NewEnvironment(st, globals), f, Len(st.envs)))

\* LoxFunction.call as it was before initializers (the first LoxFunction
\* of src/interpreter/lox_function.ts): the returned value, or null
LoxFunction_call_Plain(st, f, args) ==
  LET fn == st.funs[f]
      Catch(s3) ==
        IF s3.thrown = "cut" THEN s3
        ELSE IF s3.thrown = "return"
        THEN [s3 EXCEPT !.thrown = "none", !.v = s3.ret]
        ELSE [s3 EXCEPT !.thrown = "none", !.v = Nil]
      Try(s1) ==
        Catch(executeBlock(fn.declaration.body, Len(s1.envs),
                DefineParams(s1, Len(s1.envs), fn.declaration.params, args, 1)))
  IN Try(Called(NewEnvironment(st, fn.closure), f, Len(st.envs)))

\* try { executeBlock } catch (r) { if (r instanceof LoxReturn) ... }
LoxFunction_call(st, f, args) ==
  LET fn == st.funs[f]
      Catch(s3) ==
        IF s3.thrown = "cut" THEN s3
        ELSE IF s3.thrown = "return"
        THEN [s3 EXCEPT !.thrown = "none",
                        !.v = IF fn.isInitializer
                              THEN getAt(s3, fn.closure, 0, "this")
                              ELSE s3.ret]
        ELSE [s3 EXCEPT !.thrown = "none",
                        !.v = IF fn.isInitializer
                              THEN getAt(s3, fn.closure, 0, "this")
                              ELSE Nil]
      Try(s1) ==
        Catch(executeBlock(fn.declaration.body, Len(s1.envs),
                DefineParams(s1, Len(s1.envs), fn.declaration.params, args, 1)))
  IN Try(Called(NewEnvironment(st, fn.closure), f, Len(st.envs)))

\* the bound function is the last of st.funs
LoxFunction_bind(st, f, instance) ==
  LET fn == st.funs[f]
      environment == Len(st.envs) + 1
  IN [define(NewEnvironment(st, fn.closure), environment, "this", instance)
        EXCEPT !.funs = Append(@, [declaration |-> fn.declaration,
                                   closure |-> environment,
                                   isInitializer |-> fn.isInitializer])]

\* LoxClass.call; the history entry says what the bound initializer
\* returned and in which environment `this` was bound
LoxClass_call(st, c, args) ==
  LET instance == InstanceRef(Len(st.instances) + 1)
      Return(s4, bound) ==
        IF s4.thrown # "none" THEN s4
        ELSE Value(Log(s4, [e |-> "initialized", instance |-> instance,
                            bound |-> bound, returned |-> s4.v]), instance)
      Initialize(s3) ==
        Return(LoxFunction_call(s3, Len(s3.funs), args), Len(s3.funs))
      Initializer(s2) ==
        IF s2.thrown # "none" THEN s2
        ELSE IF s2.v.k # "nil"
        THEN Initialize(LoxFunction_bind(s2, s2.v.v, instance))
        ELSE Value(s2, instance)
  IN Initializer(LoxClass_findMethod(
       [st EXCEPT !.instances = Append(@, [cls |-> c, fields |-> << >>])],
       c, "init"))

(***************************************************************************)
(* LoxInstance (src/interpreter/lox_callable.ts:17-41).  An instance       *)
(* object is [cls, fields].                                                *)
(***************************************************************************)
\* LoxInstance.get: the field, else the method findMethod gives, as it is
LoxInstance_get(st, i, name) ==
  LET Method(s1) ==
        IF s1.thrown # "none" THEN s1
        ELSE IF s1.v.k # "nil" THEN s1
        ELSE ThrowError(s1, "Undefined property")
  IN IF name \in DOMAIN st.instances[i].fields
     THEN Value(st, st.instances[i].fields[name])
     ELSE Method(LoxClass_findMethod(st, st.instances[i].cls, name))

\* LoxInstance.set
LoxInstance_set(st, i, name, value) ==
  [st EXCEPT !.instances[i].fields =
     [n \in (DOMAIN @) \cup {name} |-> IF n = name THEN value ELSE @[n]]]

\* fn.arity() of any callable, left in st.v
Callable_arity(st, callee) ==
  CASE callee.k = "fun" -> Value(st, Num(LoxFunction_arity(st, callee.v)))
    [] callee.k = "class" -> LoxClass_arity(st, callee.v)
    [] callee.k = "native" -> Value(st, Num(0))

\* fn.call(this, args) of any callable
Callable_call(st, callee, args) ==
  CASE callee.k = "fun" -> LoxFunction_call(st, callee.v, args)
    [] callee.k = "class" -> LoxClass_call(st, callee.v, args)
    [] callee.k = "native" -> Value(st, Num(st.now))

(***************************************************************************)
(* Interpreter: the statement visitor.                                     *)
(***************************************************************************)
\* for (const stmt of stmts) this.execute(stmt), from statement i on
ExecuteAll(stmts, i, st) ==
  IF i > Len(stmts) THEN st
  ELSE LET Rest(s1) ==
             IF s1.thrown # "none" THEN s1 ELSE ExecuteAll(stmts, i + 1, s1)
       IN Rest(execute(stmts[i], st))

\* executeBlock without its finally: the environment is restored only when
\* the statements complete
executeBlock_NoFinally(stmts, environment, st) ==
  LET previous == st.environment
      Left(s2, exit) ==
        Log(s2, [e |-> "executeBlock", previous |-> previous,
                 entered |-> environment, after |-> s2.environment,
                 exit |-> exit])
      Restore(s1) ==
        Left(IF s1.thrown = "none" THEN [s1 EXCEPT !.environment = previous]
             ELSE s1, s1.thrown)
  IN Restore(ExecuteAll(stmts, 1, [st EXCEPT !.environment = environment]))

\* try { this.environment = environment; ... } finally { restore }
executeBlock(stmts, environment, st) ==
  LET previous == st.environment
      Left(s2, exit) ==
        Log(s2, [e |-> "executeBlock", previous |-> previous,
                 entered |-> environment, after |-> s2.environment,
                 exit |-> exit])
      Finally(s1) == Left([s1 EXCEPT !.environment = previous], s1.thrown)
  IN Finally(ExecuteAll(stmts, 1, [st EXCEPT !.environment = environment]))

\* a block that runs its statements in the current environment
visitBlockStatement_NoEnvironment(stmt, st) ==
  executeBlock(stmt.stmts, st.environment, st)

visitBlockStatement(stmt, st) ==
  executeBlock(stmt.stmts, Len(st.envs) + 1,
               NewEnvironment(st, st.environment))

\* new LoxClass(stmt.name.lexeme): one argument of three
visitClassStatement(stmt, st) ==
  LET class == Len(st.classes) + 1
  IN assign([define(st, st.environment, stmt.name, Nil)
               EXCEPT !.classes =
                 Append(@, [name |-> stmt.name, superClass |-> -1,
                            methods |-> [defined |-> FALSE, map |-> << >>]])],
            st.environment, stmt.name, ClassRef(class))

\* the history entry says which environment was current
visitFunctionStatement(stmt, st) ==
  define(Log([st EXCEPT !.funs = Append(@, [declaration |-> stmt,
                                            closure |-> st.environment,
                                            isInitializer |-> FALSE])],
             [e |-> "function", f |-> Len(st.funs) + 1,
              current |-> st.environment]),
         st.environment, stmt.name, FunRef(Len(st.funs) + 1))

\* throw new LoxReturn(value)
visitReturnStatement(stmt, st) ==
  LET Throw(s1) ==
        IF s1.thrown # "none" THEN s1
        ELSE [s1 EXCEPT !.thrown = "return", !.ret = s1.v]
  IN Throw(IF stmt.value.t # "null" THEN evaluate(stmt.value, st)
           ELSE Value(st, Nil))

visitExpressionStatement(stmt, st) == evaluate(stmt.expression, st)

visitPrintStatement(stmt, st) ==
  LET ConsoleLog(s1) ==
        IF s1.thrown # "none" THEN s1
        ELSE [s1 EXCEPT !.out = Append(@, stringify(s1, s1.v))]
  IN ConsoleLog(evaluate(stmt.expression, st))

visitIfStatement(stmt, st) ==
  LET Branch(s1) ==
        IF s1.thrown # "none" THEN s1
        ELSE IF isTruthy(s1.v) THEN execute(stmt.thenBranch, s1)
        ELSE IF stmt.elseBranch.t # "null" THEN execute(stmt.elseBranch, s1)
        ELSE s1
  IN Branch(evaluate(stmt.condition, st))

\* while (isTruthy(evaluate(condition))) execute(body), n iterations done
WhileLoop(stmt, st, n) ==
  LET Again(s2) ==
        IF s2.thrown # "none" THEN s2 ELSE WhileLoop(stmt, s2, n + 1)
      Body(s1) ==
        IF s1.thrown # "none" THEN s1
        ELSE IF ~isTruthy(s1.v) THEN s1
        ELSE IF n >= MaxLoop THEN [s1 EXCEPT !.thrown = "cut"]
        ELSE Again(execute(stmt.body, s1))
  IN Body(evaluate(stmt.condition, st))

visitWhileStatement(stmt, st) == WhileLoop(stmt, st, 0)

visitVariableStatement(stmt, st) ==
  LET Define(s1) ==
        IF s1.thrown # "none" THEN s1
        ELSE define(s1, s1.environment, stmt.name, s1.v)
  IN Define(IF stmt.initializer.t # "null" THEN evaluate(stmt.initializer, st)
            ELSE Value(st, Nil))

\* stmt.accept(visitor) of the Statement classes
Statement_accept(stmt, st) ==
  CASE stmt.t = "Block" -> visitBlockStatement(stmt, st)
    [] stmt.t = "Class" -> visitClassStatement(stmt, st)
    [] stmt.t = "Function" -> visitFunctionStatement(stmt, st)
    [] stmt.t = "Return" -> visitReturnStatement(stmt, st)
    [] stmt.t = "Expression" -> visitExpressionStatement(stmt, st)
    [] stmt.t = "Print" -> visitPrintStatement(stmt, st)
    [] stmt.t = "If" -> visitIfStatement(stmt, st)
    [] stmt.t = "While" -> visitWhileStatement(stmt, st)
    [] stmt.t = "Var" -> visitVariableStatement(stmt, st)

execute(stmt, st) ==
  Statement_accept(stmt, Log(st, [e |-> "execute", t |-> stmt.t]))

(***************************************************************************)
(* Interpreter: the expression visitor.                                    *)
(***************************************************************************)
\* the arguments evaluated from the last to the first
RECURSIVE EvaluateArgs_RightToLeft(_, _, _, _)
EvaluateArgs_RightToLeft(args, i, acc, st) ==
  IF i > Len(args) THEN [st EXCEPT !.args = acc]
  ELSE LET Push(s1) ==
             IF s1.thrown # "none" THEN s1
             ELSE EvaluateArgs_RightToLeft(args, i + 1, <<s1.v>> \o acc, s1)
       IN Push(evaluate(args[Len(args) + 1 - i], st))

\* for (let arg of expr.args) args.push(this.evaluate(arg))
EvaluateArgs(args, i, acc, st) ==
  IF i > Len(args) THEN [st EXCEPT !.args = acc]
  ELSE LET Push(s1) ==
             IF s1.thrown # "none" THEN s1
             ELSE EvaluateArgs(args, i + 1, Append(acc, s1.v), s1)
       IN Push(evaluate(args[i], st))

\* the history entry of one variable access: the depth the resolver
\* recorded (-1: none), the environment that depth leads to (0: null),
\* whether it holds the name, and the environment the access really used
\* (0: it raised "Undefined variable")
Lookup(expr, depth, target, bound, from) ==
  [e |-> "lookup", id |-> expr.id, name |-> expr.name, depth |-> depth,
   target |-> target, bound |-> bound, from |-> from]

visitAssignExpression(expr, st) ==
  LET Return(s2, value) == IF s2.thrown # "none" THEN s2 ELSE Value(s2, value)
      AssignAt(s1, distance, target) ==
        Log(assignAt(s1, s1.environment, distance, expr.name, s1.v),
            Lookup(expr, distance, target,
                   target # 0 /\ EnvHas(s1, target, expr.name), target))
      Assign(s1) ==
        IF s1.thrown # "none" THEN s1
        ELSE IF expr.id \in DOMAIN s1.locals
        THEN Return(AssignAt(s1, s1.locals[expr.id],
                      ancestor(s1, s1.environment, s1.locals[expr.id])), s1.v)
        ELSE Return(Log(assign(s1, globals, expr.name, s1.v),
                        Lookup(expr, -1, 0, FALSE,
                               EnvFind(s1, globals, expr.name))), s1.v)
  IN Assign(evaluate(expr.value, st))

\* a call that does not compare the number of arguments with the arity
visitCallExpression_AnyArity(expr, st) ==
  LET Callee(callee, s2) ==
        IF s2.thrown # "none" THEN s2
        ELSE IF ~isLoxCallable(callee)
        THEN ThrowError(s2, "Call only call functions and classes.")
        ELSE Callable_call(s2, callee, s2.args)
      Arguments(s1) ==
        IF s1.thrown # "none" THEN s1
        ELSE Callee(s1.v, EvaluateArgs(expr.args, 1, << >>, s1))
  IN Arguments(evaluate(expr.callee, st))

visitCallExpression(expr, st) ==
  LET Call(callee, args, s3) ==
        IF s3.thrown # "none" THEN s3
        ELSE IF Len(args) # s3.v.v THEN ThrowError(s3, "Expected arguments")
        ELSE Callable_call(s3, callee, args)
      Callee(callee, s2) ==
        IF s2.thrown # "none" THEN s2
        ELSE IF ~isLoxCallable(callee)
        THEN ThrowError(s2, "Call only call functions and classes.")
        ELSE Call(callee, s2.args, Callable_arity(s2, callee))
      Arguments(s1) ==
        IF s1.thrown # "none" THEN s1
        ELSE Callee(s1.v, EvaluateArgs(expr.args, 1, << >>, s1))
  IN Arguments(evaluate(expr.callee, st))

\* the arithmetic of the operators on two numbers
Arith(operator, left, right) ==
  IF left.k = "float" \/ right.k = "float" THEN Float
  ELSE CASE operator = "Plus" -> Num(left.v + right.v)
         [] operator = "Minus" -> Num(left.v - right.v)
         [] operator = "Star" -> Num(left.v * right.v)
         [] operator = "Slash" ->
              IF right.v # 0 /\ left.v % (IF right.v < 0 THEN -right.v ELSE right.v) = 0
              THEN (IF (left.v < 0) = (right.v < 0)
                    THEN Num((IF left.v < 0 THEN -left.v ELSE left.v)
                             \div (IF right.v < 0 THEN -right.v ELSE right.v))
                    ELSE Num(0 - ((IF left.v < 0 THEN -left.v ELSE left.v)
                             \div (IF right.v < 0 THEN -right.v ELSE right.v))))
              ELSE Float
         [] operator = "Percent" ->
              IF right.v = 0 THEN Float
              ELSE IF left.v >= 0
              THEN Num(left.v % (IF right.v < 0 THEN -right.v ELSE right.v))
              ELSE Num(0 - ((-left.v) % (IF right.v < 0 THEN -right.v ELSE right.v)))

\* left > right and the like on two numbers (false on NaN)
Compare(operator, left, right) ==
  IF left.k = "float" \/ right.k = "float" THEN Bool(FALSE)
  ELSE CASE operator = "Greater" -> Bool(left.v > right.v)
         [] operator = "GreaterEqual" -> Bool(left.v >= right.v)
         [] operator = "Less" -> Bool(left.v < right.v)
         [] operator = "LessEqual" -> Bool(left.v <= right.v)

visitBinaryExpression(expr, st) ==
  LET operator == expr.operator
      Switch(left, right, s2) ==
        CASE operator \in {"Greater", "GreaterEqual", "Less", "LessEqual"} ->
               IF IsNumber(left) /\ IsNumber(right)
               THEN Value(s2, Compare(operator, left, right))
               ELSE ThrowError(s2, "Operands must be numbers.")
          [] operator = "BangEqual" -> Value(s2, Bool(~isEqual(left, right)))
          [] operator = "EqualEqual" -> Value(s2, Bool(isEqual(left, right)))
          [] operator = "Plus" ->
               IF IsNumber(left) /\ IsNumber(right)
               THEN Value(s2, Arith(operator, left, right))
               ELSE IF left.k = "str" \/ right.k = "str"
               THEN Value(s2, Str(JsToString(s2, left) \o JsToString(s2, right)))
               ELSE ThrowError(s2,
                      "Operands must be 2 numbers or at least 1 strings.")
          [] operator \in {"Minus", "Slash", "Star", "Percent"} ->
               IF IsNumber(left) /\ IsNumber(right)
               THEN Value(s2, Arith(operator, left, right))
               ELSE ThrowError(s2, "Operands must be numbers.")
          [] OTHER ->
               ThrowError(s2, "Unknown token type used as binary operator.")
      Right(left, s2) ==
        IF s2.thrown # "none" THEN s2
        ELSE IF left.k = "nil" \/ s2.v.k = "nil"
        THEN ThrowError(s2, "One of the operands is null.")
        ELSE Switch(left, s2.v, s2)
      Left(s1) ==
        IF s1.thrown # "none" THEN s1
        ELSE Right(s1.v, evaluate(expr.right, s1))
  IN Left(evaluate(expr.left, st))

\* a logical operator that evaluates both operands before it chooses
visitLogicalExpression_Eager(expr, st) ==
  LET Right(left, s2) ==
        IF s2.thrown # "none" THEN s2
        ELSE IF expr.operator = "Or" /\ isTruthy(left) THEN Value(s2, left)
        ELSE IF expr.operator # "Or" /\ ~isTruthy(left) THEN Value(s2, left)
        ELSE s2
      Left(s1) ==
        IF s1.thrown # "none" THEN s1
        ELSE Right(s1.v, evaluate(expr.right, s1))
  IN Left(evaluate(expr.left, st))

visitLogicalExpression(expr, st) ==
  LET Left(s1) ==
        IF s1.thrown # "none" THEN s1
        ELSE IF expr.operator = "Or" /\ isTruthy(s1.v) THEN Value(s1, s1.v)
        ELSE IF expr.operator # "Or" /\ ~isTruthy(s1.v) THEN Value(s1, s1.v)
        ELSE evaluate(expr.right, s1)
  IN Left(evaluate(expr.left, st))

visitGroupingExpression(expr, st) == evaluate(expr.expression, st)

visitLiteralExpression(expr, st) == Value(st, expr.value)

visitUnaryExpression(expr, st) ==
  LET Switch(s1) ==
        IF s1.thrown # "none" THEN s1
        ELSE CASE expr.operator = "Bang" -> Value(s1, Bool(~isTruthy(s1.v)))
               [] expr.operator = "Minus" ->
                    IF s1.v.k = "num" THEN Value(s1, Num(0 - s1.v.v))
                    ELSE IF s1.v.k = "float" THEN Value(s1, Float)
                    ELSE ThrowError(s1, "Operand must be a number.")
               [] OTHER ->
                    ThrowError(s1, "Unknown token type used as unary operator.")
  IN Switch(evaluate(expr.right, st))

lookUpVariable(name, expr, st) ==
  LET GetAt(distance, target) ==
        Log(Value(st, getAt(st, st.environment, distance, name)),
            Lookup(expr, distance, target,
                   target # 0 /\ EnvHas(st, target, name), target))
  IN IF expr.id \in DOMAIN st.locals
     THEN GetAt(st.locals[expr.id],
                ancestor(st, st.environment, st.locals[expr.id]))
     ELSE Log(get(st, st.environment, name),
              Lookup(expr, -1, 0, FALSE, EnvFind(st, st.environment, name)))

visitVariableExpression(expr, st) == lookUpVariable(expr.name, expr, st)

\* expr.accept(visitor) of the Expression classes; the Interpreter has no
\* visitor for Get, Set, This and Super, so their accept calls an undefined
\* method
Expression_accept(expr, st) ==
  CASE expr.t = "Assign" -> visitAssignExpression(expr, st)
    [] expr.t = "Binary" -> visitBinaryExpression(expr, st)
    [] expr.t = "Call" -> visitCallExpression(expr, st)
    [] expr.t = "Grouping" -> visitGroupingExpression(expr, st)
    [] expr.t = "Literal" -> visitLiteralExpression(expr, st)
    [] expr.t = "Logical" -> visitLogicalExpression(expr, st)
    [] expr.t = "Unary" -> visitUnaryExpression(expr, st)
    [] expr.t = "Variable" -> visitVariableExpression(expr, st)
    [] OTHER -> ThrowError(st, "TypeError: visitor method is not a function")

evaluate(expr, st) == Expression_accept(expr, st)

(***************************************************************************)
(* Resolve (src/resolver/resolver.ts:239-491).  The state of a Resolve     *)
(* object is [scopes, currentFunction, currentClass, interpreter, thrown]: *)
(* scopes is the stack of maps name -> boolean, interpreter the state of   *)
(* the Interpreter it was constructed with, thrown = "error" once error()  *)
(* has thrown its SyntaxError (nothing in Resolve catches it); visits is   *)
(* the kind of every node accept(this) was called on, with the length of   *)
(* scopes at the call, read only by the properties.                        *)
(***************************************************************************)
NewResolve(interpreter) ==
  [scopes |-> << >>, currentFunction |-> "NONE", currentClass |-> "NONE",
   interpreter |-> interpreter, thrown |-> "none", message |-> "",
   visits |-> << >>]

RECURSIVE Resolve_resolve(_, _), Resolve_resolveAll(_, _, _)

Resolve_error(rs, message) ==
  [rs EXCEPT !.thrown = "error", !.message = message]

Resolve_beginScope(rs) == [rs EXCEPT !.scopes = Append(@, << >>)]

Resolve_endScope(rs) ==
  [rs EXCEPT !.scopes = IF Len(@) = 0 THEN @ ELSE SubSeq(@, 1, Len(@) - 1)]

\* this.scopes[this.scopes.length - 1].set(name, value)
ScopeSet(rs, name, value) ==
  [rs EXCEPT !.scopes[Len(rs.scopes)] =
     [n \in (DOMAIN @) \cup {name} |-> IF n = name THEN value ELSE @[n]]]

\* declare that does not look whether the scope has the name already
Resolve_declare_Unchecked(rs, name) ==
  IF Len(rs.scopes) = 0 THEN rs ELSE ScopeSet(rs, name, FALSE)

Resolve_declare(rs, name) ==
  IF Len(rs.scopes) = 0 THEN rs
  ELSE IF name \in DOMAIN rs.scopes[Len(rs.scopes)]
  THEN Resolve_error(rs, "Already a variable with this name in this scope.")
  ELSE ScopeSet(rs, name, FALSE)

Resolve_define(rs, name) ==
  IF Len(rs.scopes) = 0 THEN rs ELSE ScopeSet(rs, name, TRUE)

\* for (let i = this.scopes.length - 1; i >= 0; i--), scopes[i] is the
\* 1-based rs.scopes[i + 1]
RECURSIVE ResolveLocalFrom(_, _, _, _)
ResolveLocalFrom(rs, expr, name, i) ==
  IF i < 0 THEN rs
  ELSE IF name \in DOMAIN rs.scopes[i + 1]
  THEN [rs EXCEPT !.interpreter =
          resolve(@, expr.id, Len(rs.scopes) - 1 - i)]
  ELSE ResolveLocalFrom(rs, expr, name, i - 1)

\* resolveLocal without its loop: only the innermost scope is searched
Resolve_resolveLocal_Innermost(rs, expr, name) ==
  IF Len(rs.scopes) > 0 /\ name \in DOMAIN rs.scopes[Len(rs.scopes)]
  THEN [rs EXCEPT !.interpreter = resolve(@, expr.id, 0)]
  ELSE rs

Resolve_resolveLocal(rs, expr, name) ==
  ResolveLocalFrom(rs, expr, name, Len(rs.scopes) - 1)

\* for (const param of fn.params) { declare(param); define(param) }
RECURSIVE DeclareParams(_, _, _)
DeclareParams(rs, params, i) ==
  IF i > Len(params) THEN rs
  ELSE LET Define(r1) ==
             IF r1.thrown # "none" THEN r1
             ELSE DeclareParams(Resolve_define(r1, params[i]), params, i + 1)
       IN Define(Resolve_declare(rs, params[i]))

\* resolveFunction that does not put back the enclosing function kind
Resolve_resolveFunction_NotRestored(fn, type, rs) ==
  LET End(r3) == IF r3.thrown # "none" THEN r3 ELSE Resolve_endScope(r3)
      Body(r2) ==
        IF r2.thrown # "none" THEN r2
        ELSE End(Resolve_resolveAll(fn.body, 1, r2))
  IN Body(DeclareParams(
            Resolve_beginScope([rs EXCEPT !.currentFunction = type]),
            fn.params, 1))

Resolve_resolveFunction(fn, type, rs) ==
  LET enclosingFunction == rs.currentFunction
      End(r3) ==
        IF r3.thrown # "none" THEN r3
        ELSE [Resolve_endScope(r3) EXCEPT !.currentFunction = enclosingFunction]
      Body(r2) ==
        IF r2.thrown # "none" THEN r2
        ELSE End(Resolve_resolveAll(fn.body, 1, r2))
  IN Body(DeclareParams(
            Resolve_beginScope([rs EXCEPT !.currentFunction = type]),
            fn.params, 1))

Resolve_visitExpressionStatement(stmt, rs) == Resolve_resolve(stmt.expression, rs)

Resolve_visitPrintStatement(stmt, rs) == Resolve_resolve(stmt.expression, rs)

\* a variable declared only after its initializer has been resolved
Resolve_visitVariableStatement_Late(stmt, rs) ==
  LET Define(r2) ==
        IF r2.thrown # "none" THEN r2 ELSE Resolve_define(r2, stmt.name)
      Declare(r1) ==
        IF r1.thrown # "none" THEN r1
        ELSE Define(Resolve_declare(r1, stmt.name))
  IN Declare(IF stmt.initializer.t # "null"
             THEN Resolve_resolve(stmt.initializer, rs) ELSE rs)

Resolve_visitVariableStatement(stmt, rs) ==
  LET Define(r2) ==
        IF r2.thrown # "none" THEN r2 ELSE Resolve_define(r2, stmt.name)
      Initializer(r1) ==
        IF r1.thrown # "none" THEN r1
        ELSE Define(IF stmt.initializer.t # "null"
                    THEN Resolve_resolve(stmt.initializer, r1) ELSE r1)
  IN Initializer(Resolve_declare(rs, stmt.name))

\* a block that leaves its scope on the stack
Resolve_visitBlockStatement_Open(stmt, rs) ==
  Resolve_resolveAll(stmt.stmts, 1, Resolve_beginScope(rs))

\* beginScope(); resolve(stmt.stmts); endScope()
Resolve_visitBlockStatement(stmt, rs) ==
  LET End(r1) == IF r1.thrown # "none" THEN r1 ELSE Resolve_endScope(r1)
  IN End(Resolve_resolveAll(stmt.stmts, 1, Resolve_beginScope(rs)))

\* for (const method of stmt.methods) this.resolveFunction(method, METHOD)
RECURSIVE ResolveMethods(_, _, _)
ResolveMethods(methods, i, rs) ==
  IF i > Len(methods) THEN rs
  ELSE LET Rest(r1) ==
             IF r1.thrown # "none" THEN r1
             ELSE ResolveMethods(methods, i + 1, r1)
       IN Rest(Resolve_resolveFunction(methods[i], "METHOD", rs))

Resolve_visitClassStatement(stmt, rs) ==
  LET enclosingClass == rs.currentClass
      hasSuper == stmt.superClass.t # "null"
      End(r6) ==
        IF r6.thrown # "none" THEN r6
        ELSE [(IF hasSuper THEN Resolve_endScope(Resolve_endScope(r6))
               ELSE Resolve_endScope(r6))
                EXCEPT !.currentClass = enclosingClass]
      Methods(r3) ==
        IF r3.thrown # "none" THEN r3
        ELSE End(ResolveMethods(stmt.methods, 1,
               ScopeSet(Resolve_beginScope(
                 IF hasSuper
                 THEN ScopeSet(Resolve_beginScope(r3), "super", TRUE)
                 ELSE r3), "this", TRUE)))
      Super(r2) ==
        IF hasSuper /\ stmt.name = stmt.superClass.name
        THEN Resolve_error(r2, "A class can't inherit from itself.")
        ELSE Methods(IF hasSuper
                     THEN Resolve_resolve(stmt.superClass,
                            [r2 EXCEPT !.currentClass = "SUBCLASS"])
                     ELSE r2)
      Define(r1) ==
        IF r1.thrown # "none" THEN r1
        ELSE Super(Resolve_define(r1, stmt.name))
  IN Define(Resolve_declare([rs EXCEPT !.currentClass = "CLASS"], stmt.name))

Resolve_visitFunctionStatement(stmt, rs) ==
  LET Define(r1) ==
        IF r1.thrown # "none" THEN r1
        ELSE Resolve_resolveFunction(stmt, "FUNCTION",
                                     Resolve_define(r1, stmt.name))
  IN Define(Resolve_declare(rs, stmt.name))

Resolve_visitReturnStatement(stmt, rs) ==
  IF rs.currentFunction = "NONE"
  THEN Resolve_error(rs, "Can't return from top-level code.")
  ELSE IF stmt.value.t # "null"
  THEN (IF rs.currentFunction = "INITIALIZER"
        THEN Resolve_error(rs, "Can't return a value from an initializer.")
        ELSE Resolve_resolve(stmt.value, rs))
  ELSE rs

Resolve_visitIfStatement(stmt, rs) ==
  LET Else(r2) ==
        IF r2.thrown # "none" THEN r2
        ELSE IF stmt.elseBranch.t # "null"
        THEN Resolve_resolve(stmt.elseBranch, r2)
        ELSE r2
      Then(r1) ==
        IF r1.thrown # "none" THEN r1
        ELSE Else(Resolve_resolve(stmt.thenBranch, r1))
  IN Then(Resolve_resolve(stmt.condition, rs))

Resolve_visitWhileStatement(stmt, rs) ==
  LET Body(r1) ==
        IF r1.thrown # "none" THEN r1 ELSE Resolve_resolve(stmt.body, r1)
  IN Body(Resolve_resolve(stmt.condition, rs))

Resolve_visitAssignExpression(expr, rs) ==
  LET Local(r1) ==
        IF r1.thrown # "none" THEN r1
        ELSE Resolve_resolveLocal(r1, expr, expr.name)
  IN Local(Resolve_resolve(expr.value, rs))

Resolve_visitBinaryExpression(expr, rs) ==
  LET Right(r1) ==
        IF r1.thrown # "none" THEN r1 ELSE Resolve_resolve(expr.right, r1)
  IN Right(Resolve_resolve(expr.left, rs))

Resolve_visitLogicalExpression(expr, rs) ==
  LET Right(r1) ==
        IF r1.thrown # "none" THEN r1 ELSE Resolve_resolve(expr.right, r1)
  IN Right(Resolve_resolve(expr.left, rs))

Resolve_visitGroupingExpression(expr, rs) == Resolve_resolve(expr.expression, rs)

Resolve_visitLiteralExpression(expr, rs) == rs

Resolve_visitUnaryExpression(expr, rs) == Resolve_resolve(expr.right, rs)

\* scopes[length - 1].get(name) === false
Resolve_visitVariableExpression(expr, rs) ==
  IF /\ Len(rs.scopes) > 0
     /\ expr.name \in DOMAIN rs.scopes[Len(rs.scopes)]
     /\ rs.scopes[Len(rs.scopes)][expr.name] = FALSE
  THEN Resolve_error(rs, "Can't read local variable and its own initializer.")
  ELSE Resolve_resolveLocal(rs, expr, expr.name)

Resolve_visitCallExpression(expr, rs) ==
  LET Arguments(r1) ==
        IF r1.thrown # "none" THEN r1 ELSE Resolve_resolveAll(expr.args, 1, r1)
  IN Arguments(Resolve_resolve(expr.callee, rs))

Resolve_visitGetExpression(expr, rs) == Resolve_resolve(expr.object, rs)

Resolve_visitSetExpression(expr, rs) ==
  LET Object(r1) ==
        IF r1.thrown # "none" THEN r1 ELSE Resolve_resolve(expr.object, r1)
  IN Object(Resolve_resolve(expr.value, rs))

\* this resolved without looking at the enclosing class kind
Resolve_visitThisExpression_Anywhere(expr, rs) ==
  Resolve_resolveLocal(rs, expr, "this")

Resolve_visitThisExpression(expr, rs) ==
  IF rs.currentClass = "NONE"
  THEN Resolve_error(rs, "Can't use 'this' outside of a class")
  ELSE Resolve_resolveLocal(rs, expr, "this")

Resolve_visitSuperExpression(expr, rs) ==
  IF rs.currentClass = "NONE"
  THEN Resolve_error(rs, "Can't use 'super' outside of a class")
  ELSE IF rs.currentClass # "SUBCLASS"
  THEN Resolve_error(rs, "Can't use 'super' in a class with no superclass.")
  ELSE Resolve_resolveLocal(rs, expr, "super")

\* resolve(stmtOrExpr) on one node: stmtOrExpr.accept(this)
Resolve_resolve(node, r0) ==
  LET rs == [r0 EXCEPT !.visits =
               Append(@, [t |-> node.t, depth |-> Len(r0.scopes)])]
  IN
  CASE node.t = "Expression" -> Resolve_visitExpressionStatement(node, rs)
    [] node.t = "Print" -> Resolve_visitPrintStatement(node, rs)
    [] node.t = "Var" -> Resolve_visitVariableStatement(node, rs)
    [] node.t = "Block" -> Resolve_visitBlockStatement(node, rs)
    [] node.t = "Class" -> Resolve_visitClassStatement(node, rs)
    [] node.t = "Function" -> Resolve_visitFunctionStatement(node, rs)
    [] node.t = "Return" -> Resolve_visitReturnStatement(node, rs)
    [] node.t = "If" -> Resolve_visitIfStatement(node, rs)
    [] node.t = "While" -> Resolve_visitWhileStatement(node, rs)
    [] node.t = "Assign" -> Resolve_visitAssignExpression(node, rs)
    [] node.t = "Binary" -> Resolve_visitBinaryExpression(node, rs)
    [] node.t = "Grouping" -> Resolve_visitGroupingExpression(node, rs)
    [] node.t = "Literal" -> Resolve_visitLiteralExpression(node, rs)
    [] node.t = "Unary" -> Resolve_visitUnaryExpression(node, rs)
    [] node.t = "Variable" -> Resolve_visitVariableExpression(node, rs)
    [] node.t = "Logical" -> Resolve_visitLogicalExpression(node, rs)
    [] node.t = "Call" -> Resolve_visitCallExpression(node, rs)
    [] node.t = "Get" -> Resolve_visitGetExpression(node, rs)
    [] node.t = "Set" -> Resolve_visitSetExpression(node, rs)
    [] node.t = "This" -> Resolve_visitThisExpression(node, rs)
    [] node.t = "Super" -> Resolve_visitSuperExpression(node, rs)

\* resolve(stmtOrExpr) on an array: for (let stmt of stmtOrExpr) resolve(stmt)
Resolve_resolveAll(nodes, i, rs) ==
  IF i > Len(nodes) THEN rs
  ELSE LET Rest(r1) ==
             IF r1.thrown # "none" THEN r1
             ELSE Resolve_resolveAll(nodes, i + 1, r1)
       IN Rest(Resolve_resolve(nodes[i], rs))

(***************************************************************************)
(* Scanner (src/interpreter/lox_instance.ts:569-742).  A token is [type,   *)
(* lexeme, literal, line].  The source is a sequence of characters, each a *)
(* string of length one; the state of a Scanner object is                  *)
(*   source, tokens, start, current, line   the fields of the object       *)
(*   thrown, message   "error" once error() has thrown its SyntaxError     *)
(*                     (nothing in Scanner catches it), and its message    *)
(*   starts            for every token of `tokens` the value of `start`    *)
(*                     when it was added, read only by the properties      *)
(***************************************************************************)
Token(type, lexeme, literal, line) ==
  [type |-> type, lexeme |-> lexeme, literal |-> literal, line |-> line]

keywords ==
  [x \in {"and", "class", "else", "false", "for", "function", "if", "nil",
          "or", "print", "return", "super", "this", "true", "var", "while"} |->
     CASE x = "and" -> "And" [] x = "class" -> "Class" [] x = "else" -> "Else"
       [] x = "false" -> "False" [] x = "for" -> "For"
       [] x = "function" -> "Function" [] x = "if" -> "If" [] x = "nil" -> "Nil"
       [] x = "or" -> "Or" [] x = "print" -> "Print" [] x = "return" -> "Return"
       [] x = "super" -> "Super" [] x = "this" -> "This" [] x = "true" -> "True"
       [] x = "var" -> "Var" [] x = "while" -> "While"]

Digits == <<"0", "1", "2", "3", "4", "5", "6", "7", "8", "9">>
Letters ==
  {"a", "b", "c", "d", "e", "f", "g", "h", "i", "j", "k", "l", "m", "n",
   "o", "p", "q", "r", "s", "t", "u", "v", "w", "x", "y", "z", "A", "B",
   "C", "D", "E", "F", "G", "H", "I", "J", "K", "L", "M", "N", "O", "P",
   "Q", "R", "S", "T", "U", "V", "W", "X", "Y", "Z", "_"}
\* '\0', what peek() answers at the end of the source
Nul == "NUL"

isDigit(c) == \E d \in DOMAIN Digits : Digits[d] = c
isAlpha(c) == c \in Letters
isAlphaNumeric(c) == isAlpha(c) \/ isDigit(c)

NewScanner(source) ==
  [source |-> source, tokens |-> << >>, start |-> 0, current |-> 0,
   line |-> 1, thrown |-> "none", message |-> "", starts |-> << >>]

\* this.source.charAt(i)
CharAt(sc, i) == IF i < Len(sc.source) THEN sc.source[i + 1] ELSE ""

\* this.source.substring(from, to)
RECURSIVE Substring(_, _, _)
Substring(sc, from, to) ==
  IF from >= to \/ from >= Len(sc.source) THEN ""
  ELSE sc.source[from + 1] \o Substring(sc, from + 1, to)

\* parseFloat of digits with an optional fraction: the number when it is
\* an integer, Float otherwise
RECURSIVE DigitsValue(_, _, _, _)
DigitsValue(sc, from, to, acc) ==
  IF from >= to \/ ~isDigit(CharAt(sc, from)) THEN acc
  ELSE DigitsValue(sc, from + 1, to,
         10 * acc + (CHOOSE d \in DOMAIN Digits :
                       Digits[d] = CharAt(sc, from)) - 1)

parseFloat(sc, from, to) ==
  IF \E i \in from .. to - 1 :
       /\ CharAt(sc, i) = "."
       /\ \E j \in i + 1 .. to - 1 : CharAt(sc, j) # "0"
  THEN Float
  ELSE Num(DigitsValue(sc, from, to, 0))

Scanner_isAtEnd(sc) == sc.current >= Len(sc.source)

\* the state after advance(); the character it returns is
\* CharAt(sc, sc.current)
Scanner_advance(sc) == [sc EXCEPT !.current = @ + 1]

Scanner_addToken(sc, type, literal) ==
  [sc EXCEPT !.tokens = Append(@, Token(type,
                                        Substring(sc, sc.start, sc.current),
                                        literal, sc.line)),
             !.starts = Append(@, sc.start)]

\* what match(expected) answers; when TRUE the state after it is
\* Scanner_advance(sc)
Scanner_match(sc, expected) ==
  /\ ~Scanner_isAtEnd(sc)
  /\ CharAt(sc, sc.current) = expected

Scanner_peek(sc) ==
  IF Scanner_isAtEnd(sc) THEN Nul ELSE CharAt(sc, sc.current)

Scanner_peekNext(sc) ==
  IF sc.current + 1 >= Len(sc.source) THEN Nul
  ELSE CharAt(sc, sc.current + 1)

\* throw new SyntaxError(`at line ${this.line}: ${message}`)
Scanner_error(sc, message) ==
  [sc EXCEPT !.thrown = "error",
             !.message = "at line " \o ToString(sc.line) \o ": " \o message]

\* while (peek() !== '"' && !isAtEnd()) advance()
RECURSIVE StringLoop(_)
StringLoop(sc) ==
  IF Scanner_peek(sc) # "\"" /\ ~Scanner_isAtEnd(sc)
  THEN StringLoop(Scanner_advance(sc))
  ELSE sc

Scanner_string(sc) ==
  LET Add(s2) ==
        Scanner_addToken(s2, "String",
                         Str(Substring(s2, s2.start + 1, s2.current - 1)))
      Closing(s1) ==
        IF Scanner_isAtEnd(s1) THEN Scanner_error(s1, "Unterminated string.")
        ELSE Add(Scanner_advance(s1))
  IN Closing(StringLoop(sc))

\* while (isDigit(peek())) advance()
RECURSIVE DigitLoop(_)
DigitLoop(sc) ==
  IF isDigit(Scanner_peek(sc)) THEN DigitLoop(Scanner_advance(sc)) ELSE sc

Scanner_number(sc) ==
  LET Add(s2) ==
        Scanner_addToken(s2, "Number", parseFloat(s2, s2.start, s2.current))
      Fraction(s1) ==
        IF Scanner_peek(s1) = "." /\ isDigit(Scanner_peekNext(s1))
        THEN Add(DigitLoop(Scanner_advance(s1)))
        ELSE Add(s1)
  IN Fraction(DigitLoop(sc))

\* while (isAlphaNumeric(peek())) advance()
RECURSIVE IdentifierLoop(_)
IdentifierLoop(sc) ==
  IF isAlphaNumeric(Scanner_peek(sc))
  THEN IdentifierLoop(Scanner_advance(sc))
  ELSE sc

Scanner_identifier(sc) ==
  LET Add(s1, text) ==
        Scanner_addToken(s1, IF text \in DOMAIN keywords
                             THEN keywords[text] ELSE "Identifier", Nil)
      Text(s1) == Add(s1, Substring(s1, s1.start, s1.current))
  IN Text(IdentifierLoop(sc))

\* while (peek() !== '\n' && !isAtEnd()) advance()
RECURSIVE CommentLoop(_)
CommentLoop(sc) ==
  IF Scanner_peek(sc) # "\n" /\ ~Scanner_isAtEnd(sc)
  THEN CommentLoop(Scanner_advance(sc))
  ELSE sc

\* addToken(match('=') ? two : one)
OneOrTwo(sc, one, two) ==
  IF Scanner_match(sc, "=")
  THEN Scanner_addToken(Scanner_advance(sc), two, Nil)
  ELSE Scanner_addToken(sc, one, Nil)

Scanner_scanToken(sc) ==
  LET Switch(c, s1) ==
        CASE c = "(" -> Scanner_addToken(s1, "LeftParen", Nil)
          [] c = ")" -> Scanner_addToken(s1, "RightParen", Nil)
          [] c = "{" -> Scanner_addToken(s1, "LeftBrace", Nil)
          [] c = "}" -> Scanner_addToken(s1, "RightBrace", Nil)
          [] c = "," -> Scanner_addToken(s1, "Comma", Nil)
          [] c = "." -> Scanner_addToken(s1, "Dot", Nil)
          [] c = "-" -> Scanner_addToken(s1, "Minus", Nil)
          [] c = "+" -> Scanner_addToken(s1, "Plus", Nil)
          [] c = ";" -> Scanner_addToken(s1, "Semicolon", Nil)
          [] c = "*" -> Scanner_addToken(s1, "Star", Nil)
          [] c = "%" -> Scanner_addToken(s1, "Percent", Nil)
          [] c = "!" -> OneOrTwo(s1, "Bang", "BangEqual")
          [] c = "=" -> OneOrTwo(s1, "Equal", "EqualEqual")
          [] c = "<" -> OneOrTwo(s1, "Less", "LessEqual")
          [] c = ">" -> OneOrTwo(s1, "Greater", "GreaterEqual")
          [] c = "/" ->
               IF Scanner_match(s1, "/") THEN CommentLoop(Scanner_advance(s1))
               ELSE Scanner_addToken(s1, "Slash", Nil)
          [] c \in {" ", "\r", "\t"} -> s1
          [] c = "\n" -> [s1 EXCEPT !.line = @ + 1]
          [] c = "\"" -> Scanner_string(s1)
          [] OTHER ->
               IF isDigit(c) THEN Scanner_number(s1)
               ELSE IF isAlpha(c) THEN Scanner_identifier(s1)
               ELSE Scanner_error(s1, "Unexpected character: \"" \o c \o "\"")
  IN Switch(CharAt(sc, sc.current), Scanner_advance(sc))

(***************************************************************************)
(* Parser (src/parser/parser.ts:333-780).  The state of a Parser object is *)
(*   tokens, current   the token array and the 0-based cursor              *)
(*   errors            this.errors, the messages of the SyntaxErrors       *)
(*   log               what parse() wrote with console.log                 *)
(*   statements        the array parse() is filling                        *)
(*   thrown            "error" while a SyntaxError unwinds to parse()      *)
(*   node, list        the node / array the last parsing method returned   *)
(*   iterations        history of the loop of parse(), read only by the    *)
(*                     properties: for every iteration the cursor before   *)
(*                     it, the cursor when declaration() returned or threw *)
(*                     (`at`), the cursor after it and whether it threw    *)
(* A Variable expression takes the position of its identifier token as its *)
(* identity, an Assign expression the position of its `=`.                 *)
(***************************************************************************)
\* `${TokenType[this.type]} - ${this.lexeme} - ${this.literal}`
Token_toString(token) ==
  token.type \o " - " \o token.lexeme \o " - " \o
    (CASE token.literal.k = "nil" -> "null"
       [] token.literal.k = "num" -> ToString(token.literal.v)
       [] OTHER -> token.literal.v)

NewParser(tokens) ==
  [tokens |-> tokens, current |-> 0, errors |-> << >>, log |-> << >>,
   statements |-> << >>, thrown |-> "none", node |-> NoStmt, list |-> << >>,
   iterations |-> << >>]

\* return node / return list
Node(ps, node) == [ps EXCEPT !.node = node]
List(ps, list) == [ps EXCEPT !.list = list]

Parser_peek(ps) == ps.tokens[ps.current + 1]

Parser_previous(ps) == ps.tokens[ps.current]

Parser_isAtEnd(ps) == Parser_peek(ps).type = "EOF"

Parser_check(ps, type) ==
  IF Parser_isAtEnd(ps) THEN FALSE ELSE Parser_peek(ps).type = type

\* the state after advance(); the token it returns is Parser_previous of it
Parser_advance(ps) ==
  IF ~Parser_isAtEnd(ps) THEN [ps EXCEPT !.current = @ + 1] ELSE ps

\* what match(...types) answers; when TRUE the state after it is
\* Parser_advance(ps)
Parser_match(ps, types) == \E type \in types : Parser_check(ps, type)

\* error(message) records the SyntaxError and returns it
Parser_error(ps, message) == [ps EXCEPT !.errors = Append(@, message)]

\* throw this.error(message)
Parser_throw(ps, message) ==
  [Parser_error(ps, message) EXCEPT !.thrown = "error"]

Parser_consume(ps, type, message) ==
  IF Parser_check(ps, type) THEN Parser_advance(ps)
  ELSE Parser_throw(ps, message)

\* if (params.length >= 255) / if (args.length >= 255)
MaxArity == 255

RECURSIVE Parser_declaration(_), Parser_statement(_), Parser_expression(_),
          Parser_assignment(_), Parser_unary(_), Parser_block(_),
          Parser_functionDeclaration(_, _), Parser_varDeclaration(_),
          Parser_expressionStatement(_), LeftAssociative(_, _),
          DoWhile(_, _, _), Calls(_), Methods(_, _),
          Declarations(_, _), SynchronizeLoop(_)

Parser_primary(ps) ==
  LET Grouping(p2) ==
        IF p2.thrown # "none" THEN p2
        ELSE Node(p2, GroupingExpression(p2.node))
      RightParen(p1) ==
        IF p1.thrown # "none" THEN p1
        ELSE Grouping(Parser_consume(p1, "RightParen",
                                     "Expect ')' after expression."))
  IN IF Parser_match(ps, {"False"})
     THEN Node(Parser_advance(ps), LiteralExpression(Bool(FALSE)))
     ELSE IF Parser_match(ps, {"True"})
     THEN Node(Parser_advance(ps), LiteralExpression(Bool(TRUE)))
     ELSE IF Parser_match(ps, {"Nil"})
     THEN Node(Parser_advance(ps), LiteralExpression(Nil))
     ELSE IF Parser_match(ps, {"Number", "String"})
     THEN Node(Parser_advance(ps), LiteralExpression(Parser_peek(ps).literal))
     ELSE IF Parser_match(ps, {"Identifier"})
     THEN Node(Parser_advance(ps),
               VariableExpression(ps.current + 1, Parser_peek(ps).lexeme))
     ELSE IF Parser_match(ps, {"LeftParen"})
     THEN RightParen(Parser_expression(Parser_advance(ps)))
     ELSE Parser_throw(ps, "Expected expression.")

\* one pass of  do { if (args.length >= 255) error; args.push(expression()) }
\* while (this.match(Comma)),  ps.list being args: the state after the push
\* and the match
ArgumentsBody(ps) ==
  LET While(p1) ==
        IF p1.thrown # "none" THEN p1
        ELSE IF Parser_match(p1, {"Comma"})
        THEN List(Parser_advance(p1), Append(ps.list, p1.node))
        ELSE List(p1, Append(ps.list, p1.node))
  IN While(Parser_expression(
       IF Len(ps.list) >= MaxArity
       THEN Parser_error(ps, "Can't have more than 255 arguments")
       ELSE ps))

\* the do-while loop of finishCall; a pass consumes at least one token
Arguments(ps, args) ==
  DoWhile("arguments", ArgumentsBody(List(ps, args)), Len(ps.tokens))

Parser_finishCall(ps, callee) ==
  LET Call(p2) ==
        IF p2.thrown # "none" THEN p2
        ELSE Node(p2, CallExpression(callee, p2.list))
      RightParen(p1) ==
        IF p1.thrown # "none" THEN p1
        ELSE Call(Parser_consume(p1, "RightParen",
                                 "Expect ')' after arguments."))
  IN RightParen(IF ~Parser_check(ps, "RightParen")
                THEN Arguments(ps, << >>)
                ELSE List(ps, << >>))

\* while (true) { if (match(LeftParen)) expr = finishCall(expr) else break }
Calls(ps) ==
  IF ps.thrown # "none" THEN ps
  ELSE IF Parser_match(ps, {"LeftParen"})
  THEN Calls(Parser_finishCall(Parser_advance(ps), ps.node))
  ELSE ps

Parser_call(ps) == Calls(Parser_primary(ps))

Parser_unary(ps) ==
  LET Unary(operator, p1) ==
        IF p1.thrown # "none" THEN p1
        ELSE Node(p1, UnaryExpression(operator, p1.node))
  IN IF Parser_match(ps, {"Bang", "Minus"})
     THEN Unary(Parser_peek(ps).type, Parser_unary(Parser_advance(ps)))
     ELSE Parser_call(ps)

\* the six methods or, and, equality, comparison, term and factor are one
\* loop,  let expr = operand(); while (match(...operators)) { operator =
\* previous(); right = operand(); expr = new node(expr, operator, right) },
\* over their own operators, operand method and node class
Operators(method) ==
  CASE method = "or" -> {"Or"}
    [] method = "and" -> {"And"}
    [] method = "equality" -> {"BangEqual", "EqualEqual"}
    [] method = "comparison" ->
         {"Greater", "GreaterEqual", "Less", "LessEqual"}
    [] method = "term" -> {"Minus", "Plus"}
    [] method = "factor" -> {"Slash", "Star", "Percent"}

OperandMethod(method) ==
  CASE method = "or" -> "and"
    [] method = "and" -> "equality"
    [] method = "equality" -> "comparison"
    [] method = "comparison" -> "term"
    [] method = "term" -> "factor"
    [] method = "factor" -> "unary"

OperatorNode(method, left, operator, right) ==
  IF method \in {"or", "and"}
  THEN LogicalExpression(left, operator, right)
  ELSE BinaryExpression(left, operator, right)

\* the rest of the loop of `method`, ps.node being expr
RECURSIVE OperatorLoop(_, _)
OperatorLoop(method, ps) ==
  LET New(expr, operator, p1) ==
        IF p1.thrown # "none" THEN p1
        ELSE OperatorLoop(method,
               Node(p1, OperatorNode(method, expr, operator, p1.node)))
  IN IF ps.thrown # "none" THEN ps
     ELSE IF Parser_match(ps, Operators(method))
     THEN New(ps.node, Parser_peek(ps).type,
              LeftAssociative(OperandMethod(method), Parser_advance(ps)))
     ELSE ps

LeftAssociative(method, ps) ==
  IF method = "unary" THEN Parser_unary(ps)
  ELSE OperatorLoop(method, LeftAssociative(OperandMethod(method), ps))

Parser_factor(ps) == LeftAssociative("factor", ps)
Parser_term(ps) == LeftAssociative("term", ps)
Parser_comparison(ps) == LeftAssociative("comparison", ps)
Parser_equality(ps) == LeftAssociative("equality", ps)
Parser_and(ps) == LeftAssociative("and", ps)
Parser_or(ps) == LeftAssociative("or", ps)

Parser_assignment(ps) ==
  LET Assign(expr, equals, p2) ==
        IF p2.thrown # "none" THEN p2
        ELSE IF expr.t = "Variable"
        THEN Node(p2, AssignExpression(equals, expr.name, p2.node))
        ELSE Node(Parser_error(p2, Token_toString(p2.tokens[equals])
                                     \o " Invalid assignment target"), expr)
      Target(p1) ==
        IF p1.thrown # "none" THEN p1
        ELSE IF Parser_match(p1, {"Equal"})
        THEN Assign(p1.node, p1.current + 1,
                    Parser_assignment(Parser_advance(p1)))
        ELSE p1
  IN Target(Parser_or(ps))

Parser_expression(ps) == Parser_assignment(ps)

Parser_expressionStatement(ps) ==
  LET New(value, p2) ==
        IF p2.thrown # "none" THEN p2
        ELSE Node(p2, ExpressionStatement(value))
      Semicolon(p1) ==
        IF p1.thrown # "none" THEN p1
        ELSE New(p1.node, Parser_consume(p1, "Semicolon",
                            "Expect ';' after expression."))
  IN Semicolon(Parser_expression(ps))

Parser_printStatement(ps) ==
  LET New(value, p2) ==
        IF p2.thrown # "none" THEN p2 ELSE Node(p2, PrintStatement(value))
      Semicolon(p1) ==
        IF p1.thrown # "none" THEN p1
        ELSE New(p1.node, Parser_consume(p1, "Semicolon",
                            "Expect ';' after value."))
  IN Semicolon(Parser_expression(ps))

Parser_whileStatement(ps) ==
  LET New(condition, p4) ==
        IF p4.thrown # "none" THEN p4
        ELSE Node(p4, WhileStatement(condition, p4.node))
      Body(condition, p3) ==
        IF p3.thrown # "none" THEN p3
        ELSE New(condition, Parser_statement(p3))
      RightParen(p2) ==
        IF p2.thrown # "none" THEN p2
        ELSE Body(p2.node, Parser_consume(p2, "RightParen",
                             "Expect ')' after while condition."))
      Condition(p1) ==
        IF p1.thrown # "none" THEN p1
        ELSE RightParen(Parser_expression(p1))
  IN Condition(Parser_consume(ps, "LeftParen", "Expect '(' after 'while'."))

Parser_ifStatement(ps) ==
  LET New(condition, thenBranch, p5) ==
        IF p5.thrown # "none" THEN p5
        ELSE Node(p5, IfStatement(condition, thenBranch, p5.node))
      Else(condition, p4) ==
        IF p4.thrown # "none" THEN p4
        ELSE IF Parser_match(p4, {"Else"})
        THEN New(condition, p4.node, Parser_statement(Parser_advance(p4)))
        ELSE Node(p4, IfStatement(condition, p4.node, NoStmt))
      Then(condition, p3) ==
        IF p3.thrown # "none" THEN p3
        ELSE Else(condition, Parser_statement(p3))
      RightParen(p2) ==
        IF p2.thrown # "none" THEN p2
        ELSE Then(p2.node, Parser_consume(p2, "RightParen",
                             "Expect ')' after if condition."))
      Condition(p1) ==
        IF p1.thrown # "none" THEN p1
        ELSE RightParen(Parser_expression(p1))
  IN Condition(Parser_consume(ps, "LeftParen", "Expect '(' after 'if'."))

\* a for loop whose increment is put before its body
ForLoop_IncrementFirst(initializer, condition, increment, body) ==
  LET stmt == IF increment.t # "null"
              THEN BlockStatement(<<ExpressionStatement(increment), body>>)
              ELSE body
      while == WhileStatement(IF condition.t = "null"
                              THEN LiteralExpression(Bool(TRUE))
                              ELSE condition, stmt)
  IN IF initializer.t # "null"
     THEN BlockStatement(<<initializer, while>>)
     ELSE while

\* the statement tree forStatement builds from its four parts
ForLoop(initializer, condition, increment, body) ==
  LET stmt == IF increment.t # "null"
              THEN BlockStatement(<<body, ExpressionStatement(increment)>>)
              ELSE body
      while == WhileStatement(IF condition.t = "null"
                              THEN LiteralExpression(Bool(TRUE))
                              ELSE condition, stmt)
  IN IF initializer.t # "null"
     THEN BlockStatement(<<initializer, while>>)
     ELSE while

Parser_forStatement(ps) ==
  LET New(initializer, condition, increment, p7) ==
        IF p7.thrown # "none" THEN p7
        ELSE Node(p7, ForLoop(initializer, condition, increment, p7.node))
      Body(initializer, condition, increment, p6) ==
        IF p6.thrown # "none" THEN p6
        ELSE New(initializer, condition, increment, Parser_statement(p6))
      RightParen(initializer, condition, p5) ==
        IF p5.thrown # "none" THEN p5
        ELSE Body(initializer, condition, p5.node,
                  Parser_consume(p5, "RightParen",
                                 "Expect ')' after for clauses."))
      Increment(initializer, condition, p4) ==
        IF p4.thrown # "none" THEN p4
        ELSE RightParen(initializer, condition,
               IF ~Parser_check(p4, "RightParen")
               THEN Parser_expression(p4) ELSE Node(p4, NoExpr))
      Semicolon(initializer, p3) ==
        IF p3.thrown # "none" THEN p3
        ELSE Increment(initializer, p3.node,
               Parser_consume(p3, "Semicolon",
                              "Expect ';' after loop condition."))
      Condition(p2) ==
        IF p2.thrown # "none" THEN p2
        ELSE Semicolon(p2.node,
               IF ~Parser_check(p2, "Semicolon")
               THEN Parser_expression(p2) ELSE Node(p2, NoExpr))
      Initializer(p1) ==
        IF p1.thrown # "none" THEN p1
        ELSE IF Parser_match(p1, {"Semicolon"})
        THEN Condition(Node(Parser_advance(p1), NoStmt))
        ELSE IF Parser_match(p1, {"Var"})
        THEN Condition(Parser_varDeclaration(Parser_advance(p1)))
        ELSE Condition(Parser_expressionStatement(p1))
  IN Initializer(Parser_consume(ps, "LeftParen", "Expect '(' after 'for'."))

Parser_returnStatement(ps) ==
  LET New(value, p2) ==
        IF p2.thrown # "none" THEN p2 ELSE Node(p2, ReturnStatement(value))
      Semicolon(p1) ==
        IF p1.thrown # "none" THEN p1
        ELSE New(p1.node, Parser_consume(p1, "Semicolon",
                            "Expect ';' after return value"))
  IN Semicolon(IF ~Parser_check(ps, "Semicolon")
               THEN Parser_expression(ps) ELSE Node(ps, NoExpr))

\* while (!check(RightBrace) && !isAtEnd()) stmts.push(declaration())
Declarations(ps, stmts) ==
  LET Push(p1) ==
        IF p1.thrown # "none" THEN p1
        ELSE Declarations(p1, Append(stmts, p1.node))
  IN IF ~Parser_check(ps, "RightBrace") /\ ~Parser_isAtEnd(ps)
     THEN Push(Parser_declaration(ps))
     ELSE List(ps, stmts)

Parser_block(ps) ==
  LET RightBrace(p1) ==
        IF p1.thrown # "none" THEN p1
        ELSE Parser_consume(p1, "RightBrace", "Expect '}' after block.")
  IN RightBrace(Declarations(ps, << >>))

Parser_statement(ps) ==
  LET Block(p1) ==
        IF p1.thrown # "none" THEN p1 ELSE Node(p1, BlockStatement(p1.list))
  IN IF Parser_match(ps, {"For"})
     THEN Parser_forStatement(Parser_advance(ps))
     ELSE IF Parser_match(ps, {"If"})
     THEN Parser_ifStatement(Parser_advance(ps))
     ELSE IF Parser_match(ps, {"Print"})
     THEN Parser_printStatement(Parser_advance(ps))
     ELSE IF Parser_match(ps, {"Return"})
     THEN Parser_returnStatement(Parser_advance(ps))
     ELSE IF Parser_match(ps, {"While"})
     THEN Parser_whileStatement(Parser_advance(ps))
     ELSE IF Parser_match(ps, {"LeftBrace"})
     THEN Block(Parser_block(Parser_advance(ps)))
     ELSE Parser_expressionStatement(ps)

Parser_varDeclaration(ps) ==
  LET New(name, initializer, p3) ==
        IF p3.thrown # "none" THEN p3
        ELSE Node(p3, VariableStatement(name, initializer))
      Semicolon(name, p2) ==
        IF p2.thrown # "none" THEN p2
        ELSE New(name, p2.node,
                 Parser_consume(p2, "Semicolon",
                                "Expect ';' after variable declaration."))
      Initializer(p1) ==
        IF p1.thrown # "none" THEN p1
        ELSE Semicolon(Parser_previous(p1).lexeme,
               IF Parser_match(p1, {"Equal"})
               THEN Parser_expression(Parser_advance(p1))
               ELSE Node(p1, NoExpr))
  IN Initializer(Parser_consume(ps, "Identifier", "Expect variable name."))

\* a parameter list whose limit is tested with > in place of >=
ParametersBody_OffByOne(ps) ==
  LET While(p1) ==
        IF p1.thrown # "none" THEN p1
        ELSE IF Parser_match(p1, {"Comma"})
        THEN List(Parser_advance(p1),
                  Append(ps.list, Parser_previous(p1).lexeme))
        ELSE List(p1, Append(ps.list, Parser_previous(p1).lexeme))
  IN While(Parser_consume(
       IF Len(ps.list) > MaxArity
       THEN Parser_error(ps, "Can't have more than 255 parameters")
       ELSE ps,
       "Identifier", "Expect parameter name."))

\* one pass of  do { if (params.length >= 255) error;
\* params.push(consume(Identifier)) } while (this.match(Comma)),  ps.list
\* being params: the state after the push and the match
ParametersBody(ps) ==
  LET While(p1) ==
        IF p1.thrown # "none" THEN p1
        ELSE IF Parser_match(p1, {"Comma"})
        THEN List(Parser_advance(p1),
                  Append(ps.list, Parser_previous(p1).lexeme))
        ELSE List(p1, Append(ps.list, Parser_previous(p1).lexeme))
  IN While(Parser_consume(
       IF Len(ps.list) >= MaxArity
       THEN Parser_error(ps, "Can't have more than 255 parameters")
       ELSE ps,
       "Identifier", "Expect parameter name."))

\* do { body } while (this.match(Comma)) after its first pass: the loop goes
\* on while the match has just consumed a comma and nothing was thrown.
\* `passes` is a number of passes the loop cannot exceed; the passes are
\* split in halves so that a long list is not a deep nesting of operators.
DoWhile(body, ps, passes) ==
  IF passes <= 0 \/ ps.thrown # "none" \/ Parser_previous(ps).type # "Comma"
  THEN ps
  ELSE IF passes = 1
  THEN IF body = "arguments" THEN ArgumentsBody(ps) ELSE ParametersBody(ps)
  ELSE DoWhile(body, DoWhile(body, ps, passes \div 2),
               passes - (passes \div 2))

\* the do-while loop of functionDeclaration
Parameters(ps, params) ==
  DoWhile("parameters", ParametersBody(List(ps, params)), Len(ps.tokens))

Parser_functionDeclaration(ps, kind) ==
  LET New(name, params, p6) ==
        IF p6.thrown # "none" THEN p6
        ELSE Node(p6, FunctionStatement(name, params, p6.list))
      Body(name, params, p5) ==
        IF p5.thrown # "none" THEN p5
        ELSE New(name, params, Parser_block(p5))
      LeftBrace(name, p4) ==
        IF p4.thrown # "none" THEN p4
        ELSE Body(name, p4.list,
                  Parser_consume(p4, "LeftBrace",
                    "Expect '{' before " \o kind \o " body."))
      RightParen(name, p3) ==
        IF p3.thrown # "none" THEN p3
        ELSE LeftBrace(name, Parser_consume(p3, "RightParen",
                               "Expect ')' after parameters."))
      Params(name, p2) ==
        IF p2.thrown # "none" THEN p2
        ELSE RightParen(name, IF ~Parser_check(p2, "RightParen")
                              THEN Parameters(p2, << >>)
                              ELSE List(p2, << >>))
      LeftParen(p1) ==
        IF p1.thrown # "none" THEN p1
        ELSE Params(Parser_previous(p1).lexeme,
                    Parser_consume(p1, "LeftParen",
                      "Expect '(' after " \o kind \o " name."))
  IN LeftParen(Parser_consume(ps, "Identifier",
                              "Expect " \o kind \o " name."))

\* while (!check(RightBrace) && !isAtEnd())
\*   methods.push(functionDeclaration("method"))
Methods(ps, methods) ==
  LET Push(p1) ==
        IF p1.thrown # "none" THEN p1
        ELSE Methods(p1, Append(methods, p1.node))
  IN IF ~Parser_check(ps, "RightBrace") /\ ~Parser_isAtEnd(ps)
     THEN Push(Parser_functionDeclaration(ps, "method"))
     ELSE List(ps, methods)

\* new ClassStatement(name, methods): this parser reads no superclass
Parser_classDeclaration(ps) ==
  LET New(name, p4) ==
        IF p4.thrown # "none" THEN p4
        ELSE Node(p4, ClassStatement(name, NoExpr, p4.list))
      RightBrace(name, p3) ==
        IF p3.thrown # "none" THEN p3
        ELSE New(name, Parser_consume(p3, "RightBrace",
                                      "Expect '}' after class"))
      Body(name, p2) ==
        IF p2.thrown # "none" THEN p2
        ELSE RightBrace(name, Methods(p2, << >>))
      LeftBrace(p1) ==
        IF p1.thrown # "none" THEN p1
        ELSE Body(Parser_previous(p1).lexeme,
                  Parser_consume(p1, "LeftBrace",
                                 "Expect '{' before class body."))
  IN LeftBrace(Parser_consume(ps, "Identifier", "Expect class name."))

Parser_declaration(ps) ==
  IF Parser_match(ps, {"Class"})
  THEN Parser_classDeclaration(Parser_advance(ps))
  ELSE IF Parser_match(ps, {"Function"})
  THEN Parser_functionDeclaration(Parser_advance(ps), "function")
  ELSE IF Parser_match(ps, {"Var"})
  THEN Parser_varDeclaration(Parser_advance(ps))
  ELSE Parser_statement(ps)

\* the loop of synchronize without the test of the previous token
RECURSIVE SynchronizeLoop_KeywordsOnly(_)
SynchronizeLoop_KeywordsOnly(ps) ==
  IF Parser_isAtEnd(ps) THEN ps
  ELSE IF Parser_peek(ps).type \in
            {"Class", "Function", "Var", "For", "If", "While", "Print", "Return"}
  THEN ps
  ELSE SynchronizeLoop_KeywordsOnly(Parser_advance(ps))

\* while (!isAtEnd()) { if (previous is `;`) return;
\*                      switch (peek().type) ... return; advance() }
SynchronizeLoop(ps) ==
  IF Parser_isAtEnd(ps) THEN ps
  ELSE IF Parser_previous(ps).type = "Semicolon" THEN ps
  ELSE IF Parser_peek(ps).type \in
            {"Class", "Function", "Var", "For", "If", "While", "Print", "Return"}
  THEN ps
  ELSE SynchronizeLoop(Parser_advance(ps))

\* synchronize() that leaves the cursor where the error was raised
Parser_synchronize_Nothing(ps) == ps

\* synchronize(): this.advance(); while (!this.isAtEnd()) ...
Parser_synchronize(ps) == SynchronizeLoop(Parser_advance(ps))

\* one iteration of the loop of parse():
\* try { statements.push(declaration()) } catch (err) { log; synchronize }
ParseIteration(ps) ==
  LET Iteration(p1, p2) ==
        [p2 EXCEPT !.iterations =
           Append(@, [from |-> ps.current, at |-> p1.current,
                      to |-> p2.current, failed |-> p1.thrown # "none"])]
      TryCatch(p1) ==
        IF p1.thrown # "none"
        THEN Iteration(p1, Parser_synchronize(
               [p1 EXCEPT !.thrown = "none",
                          !.log = Append(@, p1.errors[Len(p1.errors)])]))
        ELSE Iteration(p1, [p1 EXCEPT !.statements = Append(@, p1.node)])
  IN TryCatch(Parser_declaration(ps))

\* parse(): the loop  while (!this.isAtEnd()) { try ... catch ... }  run to
\* its end, the state in which parse() returns [statements, this.errors]
RECURSIVE Parser_parse(_)
Parser_parse(ps) ==
  IF Parser_isAtEnd(ps) THEN ps ELSE Parser_parse(ParseIteration(ps))

(***************************************************************************)
(* The programs the model runs.  A scenario is [family, params, stmts]:    *)
(* stmts is the Statement[] handed to the resolver and the interpreter,    *)
(* family and params say how it was built.                                 *)
(***************************************************************************)
Lit(value) == LiteralExpression(value)
Var(id, name) == VariableExpression(id, name)
Call0(callee) == CallExpression(callee, << >>)
\* variant: which program of the family; operands: the values it is built
\* from; tokens: no source, the statements are given as trees
Scenario(family, variant, operands, stmts) ==
  [family |-> family, variant |-> variant, operands |-> operands,
   stmts |-> stmts, tokens |-> << Token("EOF", "", Nil, 1) >>]

\* the literal values a program may hold
Literals ==
  {Nil, Bool(TRUE), Bool(FALSE), Str(""), Str("a")} \cup {Num(n) : n \in 0 .. MaxNum}

\* function makeCounter() { var n = 0;
\*   function count() { n = n + 1; return n; } return count; }
MakeCounter ==
  FunctionStatement("makeCounter", << >>, <<
    VariableStatement("n", Lit(Num(0))),
    FunctionStatement("count", << >>, <<
      ExpressionStatement(AssignExpression(1, "n",
        BinaryExpression(Var(2, "n"), "Plus", Lit(Num(1))))),
      ReturnStatement(Var(3, "n")) >>),
    ReturnStatement(Var(4, "count")) >>)

\* var c = makeCounter(); then print c(); print c(); at three call sites:
\* the top level (spec.md scenario 4), a block that has an n of its own,
\* and a function that has an n of its own
CounterScenarios ==
  { Scenario("counter", "top", << >>, <<
      MakeCounter,
      VariableStatement("c", Call0(Var(5, "makeCounter"))),
      PrintStatement(Call0(Var(6, "c"))),
      PrintStatement(Call0(Var(7, "c"))) >>),
    Scenario("counter", "block", << >>, <<
      MakeCounter,
      VariableStatement("c", Call0(Var(5, "makeCounter"))),
      BlockStatement(<<
        VariableStatement("n", Lit(Num(10))),
        PrintStatement(Call0(Var(6, "c"))),
        PrintStatement(Call0(Var(7, "c"))) >>) >>),
    Scenario("counter", "function", << >>, <<
      MakeCounter,
      VariableStatement("c", Call0(Var(5, "makeCounter"))),
      FunctionStatement("h", <<"n">>, <<
        PrintStatement(Call0(Var(6, "c"))) >>),
      ExpressionStatement(CallExpression(Var(7, "h"), <<Lit(Num(20))>>)),
      ExpressionStatement(CallExpression(Var(8, "h"), <<Lit(Num(30))>>)) >>) }

\* { var a = X; { var a = Y; print a; } print a; }   (spec.md scenario 3)
\* and the same with the outer a a global
ShadowScenarios ==
  { Scenario("shadow", "block", <<x, y>>, <<
      BlockStatement(<<
        VariableStatement("a", Lit(x)),
        BlockStatement(<<
          VariableStatement("a", Lit(y)),
          PrintStatement(Var(1, "a")) >>),
        PrintStatement(Var(2, "a")) >>) >>) : x \in Literals, y \in Literals }
  \cup
  { Scenario("shadow", "global", <<x, y>>, <<
      VariableStatement("a", Lit(x)),
      BlockStatement(<<
        VariableStatement("a", Lit(y)),
        PrintStatement(Var(1, "a")) >>),
      PrintStatement(Var(2, "a")) >>) : x \in Literals, y \in Literals }

\* expressions whose evaluation raises a runtime error: a type mismatch,
\* an undefined variable, a call of a non-callable, an arity mismatch
Failing(kind) ==
  CASE kind = "type" -> UnaryExpression("Minus", Lit(Str("a")))
    [] kind = "undefined" -> Var(1, "nowhere")
    [] kind = "callee" -> Call0(Lit(Num(1)))
    [] kind = "arity" -> CallExpression(Var(1, "f"), <<Lit(Num(1))>>)

FailingKinds == {"type", "undefined", "callee", "arity"}

\* function f() {} print "before"; E; print "after";
\* function f() {} function g() { print "in"; E; print "unreached"; return 1; }
\*   var r = g(); print "after";
ErrorScenarios ==
  { Scenario("error", "top", <<Str(kind)>>, <<
      FunctionStatement("f", << >>, << >>),
      PrintStatement(Lit(Str("before"))),
      ExpressionStatement(Failing(kind)),
      PrintStatement(Lit(Str("after"))) >>) : kind \in FailingKinds }
  \cup
  { Scenario("error", "function", <<Str(kind)>>, <<
      FunctionStatement("f", << >>, << >>),
      FunctionStatement("g", << >>, <<
        PrintStatement(Lit(Str("in"))),
        ExpressionStatement(Failing(kind)),
        PrintStatement(Lit(Str("unreached"))),
        ReturnStatement(Lit(Num(1))) >>),
      VariableStatement("r", Call0(Var(2, "g"))),
      PrintStatement(Lit(Str("after"))) >>) : kind \in FailingKinds }

\* `depth` nested blocks around one statement
RECURSIVE Nested(_, _)
Nested(depth, stmt) ==
  IF depth = 0 THEN stmt ELSE BlockStatement(<<Nested(depth - 1, stmt)>>)

\* the statement that leaves the blocks: normally, by return, by an error
Leaving(exit) ==
  CASE exit = "none" -> PrintStatement(Lit(Str("inner")))
    [] exit = "return" -> ReturnStatement(Lit(Num(1)))
    [] exit = "error" -> PrintStatement(UnaryExpression("Minus", Lit(Str("a"))))

Exits == {"none", "return", "error"}

\* blocks left inside a function body, inside a loop of a function body,
\* and at the top level; then a block and a print that use the environment
UnwindScenarios ==
  { Scenario("unwind", "function", <<Str(exit), Num(depth)>>, <<
      FunctionStatement("f", <<"p">>, <<
        VariableStatement("a", Lit(Num(0))),
        Nested(depth, Leaving(exit)) >>),
      BlockStatement(<<
        VariableStatement("b", Lit(Num(1))),
        ExpressionStatement(CallExpression(Var(1, "f"), <<Lit(Num(0))>>)),
        PrintStatement(Var(2, "b")) >>),
      PrintStatement(Lit(Str("after"))) >>) : exit \in Exits, depth \in 1 .. 2 }
  \cup
  { Scenario("unwind", "loop", <<Str(exit), Num(depth)>>, <<
      FunctionStatement("f", << >>, <<
        WhileStatement(Lit(Bool(TRUE)), BlockStatement(<<
          Nested(depth, Leaving(exit)),
          ReturnStatement(NoExpr) >>)) >>),
      BlockStatement(<<
        VariableStatement("b", Lit(Num(1))),
        ExpressionStatement(Call0(Var(1, "f"))),
        PrintStatement(Var(2, "b")) >>),
      PrintStatement(Lit(Str("after"))) >>) : exit \in Exits, depth \in 1 .. 2 }
  \cup
  { Scenario("unwind", "top", <<Str(exit), Num(depth)>>, <<
      Nested(depth, Leaving(exit)),
      PrintStatement(Lit(Str("after"))) >>) : exit \in {"none", "error"},
                                              depth \in 1 .. 2 }

\* what an operand of the operator families is: a literal value, or a
\* reference to a variable that holds a function, a class or the native clock
Ref(name) == [k |-> "ref", v |-> name]
OperandKinds == Literals \cup { Ref(n) : n \in {"f", "g", "K", "clock"} }

\* the operand expression, a node of its own for every use
Operand(id, d) == IF d.k = "ref" THEN Var(id, d.v) ELSE Lit(d)

\* function f() {} function g() {} class K {}
Prelude ==
  << FunctionStatement("f", << >>, << >>),
     FunctionStatement("g", << >>, << >>),
     ClassStatement("K", NoExpr, << >>) >>

\* the value an operand has in interpreter state st
OperandValue(st, d) ==
  IF d.k = "ref" THEN st.envs[globals].values[d.v] ELSE d

\* var r = A == B;   var r = A != B;
EqualityScenarios ==
  { Scenario("equality", op, <<a, b>>,
      Prelude \o << VariableStatement("r",
        BinaryExpression(Operand(1, a), op, Operand(2, b))) >>) :
    a \in OperandKinds, op \in {"EqualEqual", "BangEqual"}, b \in OperandKinds }

\* var r = !X; if (X) print "T"; else print "F"; var w = X;
\* while (w) { print "W"; w = nil; } var a = X and "A"; var o = X or "B";
TruthScenarios ==
  { Scenario("truth", "", <<x>>, Prelude \o <<
      VariableStatement("r", UnaryExpression("Bang", Operand(1, x))),
      IfStatement(Operand(2, x), PrintStatement(Lit(Str("T"))),
                  PrintStatement(Lit(Str("F")))),
      VariableStatement("w", Operand(3, x)),
      WhileStatement(Var(4, "w"), BlockStatement(<<
        PrintStatement(Lit(Str("W"))),
        ExpressionStatement(AssignExpression(5, "w", Lit(Nil))) >>)),
      VariableStatement("a", LogicalExpression(Operand(6, x), "And", Lit(Str("A")))),
      VariableStatement("o", LogicalExpression(Operand(7, x), "Or", Lit(Str("B")))) >>) :
    x \in OperandKinds }

\* function a() { print "a"; return X; } function b() { print "b"; return Y; }
\* var r = a() or b();   var r = a() and b();
LogicalScenarios ==
  { Scenario("logical", op, <<x, y>>, <<
      FunctionStatement("a", << >>, <<
        PrintStatement(Lit(Str("a"))), ReturnStatement(Lit(x)) >>),
      FunctionStatement("b", << >>, <<
        PrintStatement(Lit(Str("b"))), ReturnStatement(Lit(y)) >>),
      VariableStatement("r",
        LogicalExpression(Call0(Var(1, "a")), op, Call0(Var(2, "b")))) >>) :
    x \in Literals, op \in {"Or", "And"}, y \in Literals }

\* function NAME() { print "NAME"; return VALUE; }
Printing(name, value) ==
  FunctionStatement(name, << >>, <<
    PrintStatement(Lit(Str(name))), ReturnStatement(value) >>)

\* the binary operators that take two numbers
NumberOperators ==
  {"Plus", "Minus", "Star", "Slash", "Greater", "GreaterEqual", "Less",
   "LessEqual", "EqualEqual", "BangEqual"}

\* programs whose subexpressions have side effects
OrderScenarios ==
  { \* function a() { print "a"; return 1; } function b() { print "b"; return 2; }
    \* var r = a() OP b();
    Scenario("order", "binary", <<Str(op)>>, <<
      Printing("a", Lit(Num(1))), Printing("b", Lit(Num(2))),
      VariableStatement("r",
        BinaryExpression(Call0(Var(1, "a")), op, Call0(Var(2, "b")))) >>) :
    op \in NumberOperators }
  \cup
  { \* a, b as above; function c() { print "c"; return 3; }
    \* var r = a() - b() * c();
    Scenario("order", "nested", << >>, <<
      Printing("a", Lit(Num(1))), Printing("b", Lit(Num(2))),
      Printing("c", Lit(Num(3))),
      VariableStatement("r",
        BinaryExpression(Call0(Var(1, "a")), "Minus",
          BinaryExpression(Call0(Var(2, "b")), "Star", Call0(Var(3, "c"))))) >>),
    \* var x = 0; var r = (x = x + 1) - x;
    Scenario("order", "assign", << >>, <<
      VariableStatement("x", Lit(Num(0))),
      VariableStatement("r",
        BinaryExpression(
          GroupingExpression(AssignExpression(1, "x",
            BinaryExpression(Var(2, "x"), "Plus", Lit(Num(1))))),
          "Minus", Var(3, "x"))) >>),
    \* a, b as above; function h(x, y) { print "h"; return x - y; }
    \* function g() { print "g"; return h; }   var r = g()(a(), b());
    Scenario("order", "call", << >>, <<
      Printing("a", Lit(Num(1))), Printing("b", Lit(Num(2))),
      FunctionStatement("h", <<"x", "y">>, <<
        PrintStatement(Lit(Str("h"))),
        ReturnStatement(BinaryExpression(Var(1, "x"), "Minus", Var(2, "y"))) >>),
      Printing("g", Var(3, "h")),
      VariableStatement("r",
        CallExpression(Call0(Var(4, "g")),
                       <<Call0(Var(5, "a")), Call0(Var(6, "b"))>>)) >>),
    \* var x = 0; function h(x, y) { return x - y; }
    \* var r = h(x = x + 1, x = x + 2);
    Scenario("order", "arguments", << >>, <<
      VariableStatement("x", Lit(Num(0))),
      FunctionStatement("h", <<"x", "y">>, <<
        ReturnStatement(BinaryExpression(Var(1, "x"), "Minus", Var(2, "y"))) >>),
      VariableStatement("r",
        CallExpression(Var(3, "h"), <<
          AssignExpression(4, "x", BinaryExpression(Var(5, "x"), "Plus", Lit(Num(1)))),
          AssignExpression(6, "x", BinaryExpression(Var(7, "x"), "Plus", Lit(Num(2))))
          >>)) >>) }

\* programs that use every kind of scope
ScopeScenarios ==
  { \* { function f() { return a; } var a = 1; print f(); }
    Scenario("scope", "lateLocal", << >>, <<
      BlockStatement(<<
        FunctionStatement("f", << >>, << ReturnStatement(Var(1, "a")) >>),
        VariableStatement("a", Lit(Num(1))),
        PrintStatement(Call0(Var(2, "f"))) >>) >>),
    \* var g = 1; { print g; g = 2; } print g;
    Scenario("scope", "globalFromBlock", << >>, <<
      VariableStatement("g", Lit(Num(1))),
      BlockStatement(<<
        PrintStatement(Var(1, "g")),
        ExpressionStatement(AssignExpression(2, "g", Lit(Num(2)))) >>),
      PrintStatement(Var(3, "g")) >>),
    \* function add(x, y) { return x + y; } print add(1, 2);
    Scenario("scope", "params", << >>, <<
      FunctionStatement("add", <<"x", "y">>, <<
        ReturnStatement(BinaryExpression(Var(1, "x"), "Plus", Var(2, "y"))) >>),
      PrintStatement(CallExpression(Var(3, "add"), <<Lit(Num(1)), Lit(Num(2))>>)) >>),
    \* { var a = 1; function f() { { a = a + 1; } return a; } print f(); print a; }
    Scenario("scope", "nestedCapture", << >>, <<
      BlockStatement(<<
        VariableStatement("a", Lit(Num(1))),
        FunctionStatement("f", << >>, <<
          BlockStatement(<<
            ExpressionStatement(AssignExpression(1, "a",
              BinaryExpression(Var(2, "a"), "Plus", Lit(Num(1))))) >>),
          ReturnStatement(Var(3, "a")) >>),
        PrintStatement(Call0(Var(4, "f"))),
        PrintStatement(Var(5, "a")) >>) >>),
    \* function down(n) { if (n > 0) return down(n - 1); return n; } print down(2);
    Scenario("scope", "recursion", << >>, <<
      FunctionStatement("down", <<"n">>, <<
        IfStatement(BinaryExpression(Var(1, "n"), "Greater", Lit(Num(0))),
          ReturnStatement(CallExpression(Var(2, "down"),
            <<BinaryExpression(Var(3, "n"), "Minus", Lit(Num(1)))>>)),
          NoStmt),
        ReturnStatement(Var(4, "n")) >>),
      PrintStatement(CallExpression(Var(5, "down"), <<Lit(Num(2))>>)) >>),
    \* { function down(n) { if (n > 0) return down(n - 1); return "z"; }
    \*   print down(1); }
    Scenario("scope", "localRecursion", << >>, <<
      BlockStatement(<<
        FunctionStatement("down", <<"n">>, <<
          IfStatement(BinaryExpression(Var(1, "n"), "Greater", Lit(Num(0))),
            ReturnStatement(CallExpression(Var(2, "down"),
              <<BinaryExpression(Var(3, "n"), "Minus", Lit(Num(1)))>>)),
            NoStmt),
          ReturnStatement(Lit(Str("z"))) >>),
        PrintStatement(CallExpression(Var(4, "down"), <<Lit(Num(1))>>)) >>) >>),
    \* var x = "g"; function f(x) { { var x = "in"; print x; } print x; }
    \* f("p"); print x;
    Scenario("scope", "shadowParam", << >>, <<
      VariableStatement("x", Lit(Str("g"))),
      FunctionStatement("f", <<"x">>, <<
        BlockStatement(<<
          VariableStatement("x", Lit(Str("in"))),
          PrintStatement(Var(1, "x")) >>),
        PrintStatement(Var(2, "x")) >>),
      ExpressionStatement(CallExpression(Var(3, "f"), <<Lit(Str("p"))>>)),
      PrintStatement(Var(4, "x")) >>),
    \* { var a; print a; a = 3; print a; }
    Scenario("scope", "uninitialized", << >>, <<
      BlockStatement(<<
        VariableStatement("a", NoExpr),
        PrintStatement(Var(1, "a")),
        ExpressionStatement(AssignExpression(2, "a", Lit(Num(3)))),
        PrintStatement(Var(3, "a")) >>) >>),
    \* function f() { zz = 1; } f(); zz = 2;
    Scenario("scope", "assignUndefined", << >>, <<
      FunctionStatement("f", << >>, <<
        ExpressionStatement(AssignExpression(1, "zz", Lit(Num(1)))) >>),
      ExpressionStatement(Call0(Var(2, "f"))),
      ExpressionStatement(AssignExpression(3, "zz", Lit(Num(2)))) >>),
    \* class A { m(p) { return p; } }
    \* { class B < A { m(q) { return this; } n() { return super.m; } } print B; }
    Scenario("scope", "classes", << >>, <<
      ClassStatement("A", NoExpr, <<
        FunctionStatement("m", <<"p">>, << ReturnStatement(Var(1, "p")) >>) >>),
      BlockStatement(<<
        ClassStatement("B", Var(2, "A"), <<
          FunctionStatement("m", <<"q">>, << ReturnStatement(ThisExpression(3)) >>),
          FunctionStatement("n", << >>, <<
            ReturnStatement(SuperExpression(4, "m")) >>) >>),
        PrintStatement(Var(5, "B")) >>) >>),
    \* var t = clock(); print t;
    Scenario("clock", "", << >>, <<
      VariableStatement("t", Call0(Var(1, "clock"))),
      PrintStatement(Var(2, "t")) >>) }

\* programs the resolver rejects
RejectedScenarios ==
  { \* return 1;
    Scenario("rejected", "topReturn", << >>, << ReturnStatement(Lit(Num(1))) >>),
    \* { var a = a; }
    Scenario("rejected", "ownInitializer", << >>, <<
      BlockStatement(<< VariableStatement("a", Var(1, "a")) >>) >>),
    \* { var a; var a; }
    Scenario("rejected", "redeclared", << >>, <<
      BlockStatement(<< VariableStatement("a", NoExpr),
                        VariableStatement("a", NoExpr) >>) >>),
    \* print this;
    Scenario("rejected", "thisOutside", << >>, <<
      PrintStatement(ThisExpression(1)) >>) }

\* class K { NAME() { BODY } }
ClassWithMethod(name, body) ==
  ClassStatement("K", NoExpr, << FunctionStatement(name, << >>, body) >>)

\* programs for the rules of the resolver, accepted and rejected ones
ResolveScenarios ==
  { \* class K { init() { return 7; } }
    Scenario("resolve", "initValue", << >>, <<
      ClassWithMethod("init", << ReturnStatement(Lit(Num(7))) >>) >>),
    \* class K { init() { if (true) { return 7; } } }
    Scenario("resolve", "initNestedValue", << >>, <<
      ClassWithMethod("init", <<
        IfStatement(Lit(Bool(TRUE)),
          BlockStatement(<< ReturnStatement(Lit(Num(7))) >>), NoStmt) >>) >>),
    \* class K { init() { return; } }
    Scenario("resolve", "initBare", << >>, <<
      ClassWithMethod("init", << ReturnStatement(NoExpr) >>) >>),
    \* class K { m() { return 7; } }
    Scenario("resolve", "methodValue", << >>, <<
      ClassWithMethod("m", << ReturnStatement(Lit(Num(7))) >>) >>),
    \* { var a = 1; { var a = a; } }
    Scenario("resolve", "shadowOwnInitializer", << >>, <<
      BlockStatement(<<
        VariableStatement("a", Lit(Num(1))),
        BlockStatement(<< VariableStatement("a", Var(1, "a")) >>) >>) >>),
    \* function f() { var a = a; }
    Scenario("resolve", "functionOwnInitializer", << >>, <<
      FunctionStatement("f", << >>, <<
        VariableStatement("a", Var(1, "a")) >>) >>),
    \* { var a = 1; var b = a; { var c = a + b; } }
    Scenario("resolve", "afterDefinition", << >>, <<
      BlockStatement(<<
        VariableStatement("a", Lit(Num(1))),
        VariableStatement("b", Var(1, "a")),
        BlockStatement(<<
          VariableStatement("c",
            BinaryExpression(Var(2, "a"), "Plus", Var(3, "b"))) >>) >>) >>),
    \* var a = a;
    Scenario("resolve", "globalOwnInitializer", << >>, <<
      VariableStatement("a", Var(1, "a")) >>),
    \* { var f; function f() {} }
    Scenario("resolve", "redeclaredFunction", << >>, <<
      BlockStatement(<< VariableStatement("f", NoExpr),
                        FunctionStatement("f", << >>, << >>) >>) >>),
    \* { var K; class K {} }
    Scenario("resolve", "redeclaredClass", << >>, <<
      BlockStatement(<< VariableStatement("K", NoExpr),
                        ClassStatement("K", NoExpr, << >>) >>) >>),
    \* function f(p, p) {}
    Scenario("resolve", "redeclaredParameter", << >>, <<
      FunctionStatement("f", <<"p", "p">>, << >>) >>),
    \* function f(p) { var p; }
    Scenario("resolve", "parameterAsLocal", << >>, <<
      FunctionStatement("f", <<"p">>, << VariableStatement("p", NoExpr) >>) >>),
    \* { var a = 1; { var a = 2; print a; } print a; }
    Scenario("resolve", "innerBlock", << >>, <<
      BlockStatement(<<
        VariableStatement("a", Lit(Num(1))),
        BlockStatement(<< VariableStatement("a", Lit(Num(2))),
                          PrintStatement(Var(1, "a")) >>),
        PrintStatement(Var(2, "a")) >>) >>),
    \* var a = "hi"; var a = a + "!"; print a;
    Scenario("resolve", "globalRedeclared", << >>, <<
      VariableStatement("a", Lit(Str("hi"))),
      VariableStatement("a", BinaryExpression(Var(1, "a"), "Plus", Lit(Str("!")))),
      PrintStatement(Var(2, "a")) >>),
    \* function f() { return 1; } function f() { return 2; } print f();
    Scenario("resolve", "globalFunctionRedeclared", << >>, <<
      FunctionStatement("f", << >>, << ReturnStatement(Lit(Num(1))) >>),
      FunctionStatement("f", << >>, << ReturnStatement(Lit(Num(2))) >>),
      PrintStatement(Call0(Var(1, "f"))) >>),
    \* function f() {} function g() { return; } return;
    Scenario("resolve", "returnAfterFunctions", << >>, <<
      FunctionStatement("f", << >>, << >>),
      FunctionStatement("g", << >>, << ReturnStatement(NoExpr) >>),
      ReturnStatement(NoExpr) >>),
    \* { return; }
    Scenario("resolve", "returnInBlock", << >>, <<
      BlockStatement(<< ReturnStatement(NoExpr) >>) >>),
    \* function outer() { function inner() { return 1; } return inner(); }
    \* print outer();
    Scenario("resolve", "returnAfterNested", << >>, <<
      FunctionStatement("outer", << >>, <<
        FunctionStatement("inner", << >>, << ReturnStatement(Lit(Num(1))) >>),
        ReturnStatement(Call0(Var(1, "inner"))) >>),
      PrintStatement(Call0(Var(2, "outer"))) >>),
    \* function f() { while (true) { { return 3; } } } print f();
    Scenario("resolve", "returnInLoop", << >>, <<
      FunctionStatement("f", << >>, <<
        WhileStatement(Lit(Bool(TRUE)), BlockStatement(<<
          BlockStatement(<< ReturnStatement(Lit(Num(3))) >>) >>)) >>),
      PrintStatement(Call0(Var(1, "f"))) >>),
    \* class K { m() { function inner() { return 1; } return 2; } }
    Scenario("resolve", "returnInMethod", << >>, <<
      ClassWithMethod("m", <<
        FunctionStatement("inner", << >>, << ReturnStatement(Lit(Num(1))) >>),
        ReturnStatement(Lit(Num(2))) >>) >>),
    \* print super.m;
    Scenario("resolve", "superOutside", << >>, <<
      PrintStatement(SuperExpression(1, "m")) >>),
    \* function f() { return this; }
    Scenario("resolve", "thisInFunction", << >>, <<
      FunctionStatement("f", << >>, << ReturnStatement(ThisExpression(1)) >>) >>),
    \* class K { m() { return super.m; } }
    Scenario("resolve", "superWithoutSuperclass", << >>, <<
      ClassWithMethod("m", << ReturnStatement(SuperExpression(1, "m")) >>) >>),
    \* class K { m() { return this; } } print this;
    Scenario("resolve", "thisAfterClass", << >>, <<
      ClassWithMethod("m", << ReturnStatement(ThisExpression(1)) >>),
      PrintStatement(ThisExpression(2)) >>),
    \* class A {} class B < A { m() { return super.m; } } print super.m;
    Scenario("resolve", "superAfterClass", << >>, <<
      ClassStatement("A", NoExpr, << >>),
      ClassStatement("B", Var(1, "A"), <<
        FunctionStatement("m", << >>, <<
          ReturnStatement(SuperExpression(2, "m")) >>) >>),
      PrintStatement(SuperExpression(3, "m")) >>),
    \* class A {} class B < A { m() { return super.m; } }
    \* class K { m() { return super.m; } }
    Scenario("resolve", "superAfterSubclass", << >>, <<
      ClassStatement("A", NoExpr, << >>),
      ClassStatement("B", Var(1, "A"), <<
        FunctionStatement("m", << >>, <<
          ReturnStatement(SuperExpression(2, "m")) >>) >>),
      ClassWithMethod("m", << ReturnStatement(SuperExpression(3, "m")) >>) >>),
    \* class A {} class B < A { m() { class K {} this; return super.m; } }
    Scenario("resolve", "superAfterNestedClass", << >>, <<
      ClassStatement("A", NoExpr, << >>),
      ClassStatement("B", Var(1, "A"), <<
        FunctionStatement("m", << >>, <<
          ClassStatement("K", NoExpr, << >>),
          ExpressionStatement(ThisExpression(2)),
          ReturnStatement(SuperExpression(3, "m")) >>) >>) >>),
    \* class A {} class B < A { m() { class K { n() { return super.n; } } } }
    Scenario("resolve", "superInNestedClass", << >>, <<
      ClassStatement("A", NoExpr, << >>),
      ClassStatement("B", Var(1, "A"), <<
        FunctionStatement("m", << >>, <<
          ClassWithMethod("n", <<
            ReturnStatement(SuperExpression(2, "n")) >>) >>) >>) >>),
    \* class K < K {}
    Scenario("resolve", "inheritsItself", << >>, <<
      ClassStatement("K", Var(1, "K"), << >>) >>) }

Scenarios ==
  ResolveScenarios \cup CounterScenarios \cup ShadowScenarios \cup ErrorScenarios \cup UnwindScenarios
    \cup EqualityScenarios \cup TruthScenarios \cup LogicalScenarios
    \cup ScopeScenarios \cup RejectedScenarios \cup OrderScenarios

(***************************************************************************)
(* The sources main.ts is run on, as the token arrays scanTokens() returns *)
(* for them: one to three statements, then EOF.                            *)
(***************************************************************************)
\* the text of a punctuation or keyword token
Lexeme(type) ==
  CASE type = "LeftParen" -> "(" [] type = "RightParen" -> ")"
    [] type = "LeftBrace" -> "{" [] type = "RightBrace" -> "}"
    [] type = "Comma" -> "," [] type = "Dot" -> "."
    [] type = "Minus" -> "-" [] type = "Plus" -> "+"
    [] type = "Semicolon" -> ";" [] type = "Star" -> "*"
    [] type = "Percent" -> "%" [] type = "Slash" -> "/"
    [] type = "Bang" -> "!" [] type = "BangEqual" -> "!="
    [] type = "Equal" -> "=" [] type = "EqualEqual" -> "=="
    [] type = "Less" -> "<" [] type = "LessEqual" -> "<="
    [] type = "Greater" -> ">" [] type = "GreaterEqual" -> ">="
    [] type = "And" -> "and" [] type = "Class" -> "class"
    [] type = "Else" -> "else" [] type = "False" -> "false"
    [] type = "For" -> "for" [] type = "Function" -> "function"
    [] type = "If" -> "if" [] type = "Nil" -> "nil" [] type = "Or" -> "or"
    [] type = "Print" -> "print" [] type = "Return" -> "return"
    [] type = "Super" -> "super" [] type = "This" -> "this"
    [] type = "True" -> "true" [] type = "Var" -> "var"
    [] type = "While" -> "while"

Punctuation(type) == Token(type, Lexeme(type), Nil, 1)
Identifier(name) == Token("Identifier", name, Nil, 1)
Number(n) == Token("Number", ToString(n), Num(n), 1)
EOF == Token("EOF", "", Nil, 1)

\* the tokens of one statement, by the name the scenario gives it
Snippet(name) ==
  CASE name = "print 1;" ->
         << Punctuation("Print"), Number(1), Punctuation("Semicolon") >>
    [] name = "print 0;" ->
         << Punctuation("Print"), Number(0), Punctuation("Semicolon") >>
    [] name = "print ;" ->
         << Punctuation("Print"), Punctuation("Semicolon") >>
    [] name = "var a = 1;" ->
         << Punctuation("Var"), Identifier("a"), Punctuation("Equal"),
            Number(1), Punctuation("Semicolon") >>
    [] name = "print i;" ->
         << Punctuation("Print"), Identifier("i"), Punctuation("Semicolon") >>
    [] name = "print a;" ->
         << Punctuation("Print"), Identifier("a"), Punctuation("Semicolon") >>
    [] name = "1 = 0;" ->
         << Number(1), Punctuation("Equal"), Number(0),
            Punctuation("Semicolon") >>
    [] name = "{ print 1 }" ->
         << Punctuation("LeftBrace"), Punctuation("Print"), Number(1),
            Punctuation("RightBrace") >>
    [] name = "{ a = 0; }" ->
         << Punctuation("LeftBrace"), Identifier("a"), Punctuation("Equal"),
            Number(0), Punctuation("Semicolon"), Punctuation("RightBrace") >>
    [] name = "(1;" ->
         << Punctuation("LeftParen"), Number(1), Punctuation("Semicolon") >>
    [] name = "function f(x) { return x; }" ->
         << Punctuation("Function"), Identifier("f"), Punctuation("LeftParen"),
            Identifier("x"), Punctuation("RightParen"),
            Punctuation("LeftBrace"), Punctuation("Return"), Identifier("x"),
            Punctuation("Semicolon"), Punctuation("RightBrace") >>
    [] name = "print f(1) + 1;" ->
         << Punctuation("Print"), Identifier("f"), Punctuation("LeftParen"),
            Number(1), Punctuation("RightParen"), Punctuation("Plus"),
            Number(1), Punctuation("Semicolon") >>
    [] name = "if (a) print 1; else print 0;" ->
         << Punctuation("If"), Punctuation("LeftParen"), Identifier("a"),
            Punctuation("RightParen"), Punctuation("Print"), Number(1),
            Punctuation("Semicolon"), Punctuation("Else"),
            Punctuation("Print"), Number(0), Punctuation("Semicolon") >>
    [] name = "for (var i = 0; i < 1; i = i + 1) print i;" ->
         << Punctuation("For"), Punctuation("LeftParen"), Punctuation("Var"),
            Identifier("i"), Punctuation("Equal"), Number(0),
            Punctuation("Semicolon"), Identifier("i"), Punctuation("Less"),
            Number(1), Punctuation("Semicolon"), Identifier("i"),
            Punctuation("Equal"), Identifier("i"), Punctuation("Plus"),
            Number(1), Punctuation("RightParen"), Punctuation("Print"),
            Identifier("i"), Punctuation("Semicolon") >>
    [] name = "while (!true or nil and -1) print 1;" ->
         << Punctuation("While"), Punctuation("LeftParen"),
            Punctuation("Bang"), Punctuation("True"), Punctuation("Or"),
            Punctuation("Nil"), Punctuation("And"), Punctuation("Minus"),
            Number(1), Punctuation("RightParen"), Punctuation("Print"),
            Number(1), Punctuation("Semicolon") >>
    [] name = "class K { m() { } }" ->
         << Punctuation("Class"), Identifier("K"), Punctuation("LeftBrace"),
            Identifier("m"), Punctuation("LeftParen"),
            Punctuation("RightParen"), Punctuation("LeftBrace"),
            Punctuation("RightBrace"), Punctuation("RightBrace") >>

\* statements without a syntax error, and statements with one: the first
\* two unwind to parse(), the third is reported without unwinding, the
\* fourth at the end of the source
WellFormed ==
  { "print 1;", "print 0;", "var a = 1;", "print a;", "{ a = 0; }",
    "function f(x) { return x; }", "print f(1) + 1;",
    "if (a) print 1; else print 0;",
    "for (var i = 0; i < 1; i = i + 1) print i;",
    "while (!true or nil and -1) print 1;", "class K { m() { } }" }
IllFormed == { "print ;", "(1;", "1 = 0;", "{ print 1 }" }

RECURSIVE Flatten(_)
Flatten(names) ==
  IF names = << >> THEN << EOF >>
  ELSE Snippet(Head(names)) \o Flatten(Tail(names))

Source(names) ==
  [family |-> "source", variant |-> "", stmts |-> << >>,
   operands |-> [i \in DOMAIN names |-> Str(names[i])],
   tokens |-> Flatten(names)]

SourceScenarios ==
  { Source(<<a>>) : a \in WellFormed \cup IllFormed }
    \cup { Source(<<a, b>>) : a, b \in WellFormed \cup IllFormed }
    \cup { Source(<<a, b, c>>) : a, b, c \in {"print 1;", "print ;", "1 = 0;"} }

\* the sources with a long parameter list or a long argument list, around
\* the limit of 255 entries:
\*   function f(p, ..., p) { } print 1;        f(1, ..., 1); print 1;
ListLengths == {0, 1, MaxArity - 1, MaxArity, MaxArity + 1, MaxArity + 2}

Separated(token, n) ==
  [i \in 1 .. (IF n = 0 THEN 0 ELSE 2 * n - 1) |->
     IF i % 2 = 1 THEN token ELSE Punctuation("Comma")]

ArityTokens(list, n) ==
  (IF list = "parameters"
   THEN << Punctuation("Function"), Identifier("f"), Punctuation("LeftParen") >>
          \o Separated(Identifier("p"), n)
          \o << Punctuation("RightParen"), Punctuation("LeftBrace"),
                Punctuation("RightBrace") >>
   ELSE << Identifier("f"), Punctuation("LeftParen") >>
          \o Separated(Number(1), n)
          \o << Punctuation("RightParen"), Punctuation("Semicolon") >>)
    \o Snippet("print 1;") \o << EOF >>

ArityScenarios ==
  { [family |-> "arity", variant |-> list, stmts |-> << >>,
     operands |-> << Num(n) >>, tokens |-> ArityTokens(list, n)] :
      list \in {"parameters", "arguments"}, n \in ListLengths }

\* for loops, each followed by a read of the loop variable
ForTokens(variant) ==
  (CASE variant = "full" ->
          \* for (var i = 0; i < 2; i = i + 1) print i;
          << Punctuation("For"), Punctuation("LeftParen"), Punctuation("Var"),
             Identifier("i"), Punctuation("Equal"), Number(0),
             Punctuation("Semicolon"), Identifier("i"), Punctuation("Less"),
             Number(2), Punctuation("Semicolon"), Identifier("i"),
             Punctuation("Equal"), Identifier("i"), Punctuation("Plus"),
             Number(1), Punctuation("RightParen"), Punctuation("Print"),
             Identifier("i"), Punctuation("Semicolon") >>
     [] variant = "noCondition" ->
          \* for (var i = 0; ; i = i + 1) print i;
          << Punctuation("For"), Punctuation("LeftParen"), Punctuation("Var"),
             Identifier("i"), Punctuation("Equal"), Number(0),
             Punctuation("Semicolon"), Punctuation("Semicolon"),
             Identifier("i"), Punctuation("Equal"), Identifier("i"),
             Punctuation("Plus"), Number(1), Punctuation("RightParen"),
             Punctuation("Print"), Identifier("i"), Punctuation("Semicolon") >>
     [] variant = "never" ->
          \* for (var i = 0; i < 0; i = i + 1) print i;
          << Punctuation("For"), Punctuation("LeftParen"), Punctuation("Var"),
             Identifier("i"), Punctuation("Equal"), Number(0),
             Punctuation("Semicolon"), Identifier("i"), Punctuation("Less"),
             Number(0), Punctuation("Semicolon"), Identifier("i"),
             Punctuation("Equal"), Identifier("i"), Punctuation("Plus"),
             Number(1), Punctuation("RightParen"), Punctuation("Print"),
             Identifier("i"), Punctuation("Semicolon") >>)
    \o Snippet("print i;") \o << EOF >>

\* the loops as the parser hands them to the resolver and the interpreter
ForScenarios ==
  { [family |-> "for", variant |-> variant,
     stmts |-> Parser_parse(NewParser(ForTokens(variant))).statements,
     operands |-> << >>, tokens |-> ForTokens(variant)] :
      variant \in {"full", "noCondition", "never"} }

\* assignments, each followed by print 1;
AssignmentTokens(variant) ==
  (CASE variant = "chain" ->
          \* a = b = 1;
          << Identifier("a"), Punctuation("Equal"), Identifier("b"),
             Punctuation("Equal"), Number(1), Punctuation("Semicolon") >>
     [] variant = "lowerPrecedence" ->
          \* a = 0 or 1;
          << Identifier("a"), Punctuation("Equal"), Number(0),
             Punctuation("Or"), Number(1), Punctuation("Semicolon") >>
     [] variant = "property" ->
          \* a.b = 1;
          << Identifier("a"), Punctuation("Dot"), Identifier("b"),
             Punctuation("Equal"), Number(1), Punctuation("Semicolon") >>
     [] variant = "literal" ->
          \* 1 = a = 0;
          << Number(1), Punctuation("Equal"), Identifier("a"),
             Punctuation("Equal"), Number(0), Punctuation("Semicolon") >>
     [] variant = "grouping" ->
          \* (a) = 1;
          << Punctuation("LeftParen"), Identifier("a"),
             Punctuation("RightParen"), Punctuation("Equal"), Number(1),
             Punctuation("Semicolon") >>
     [] variant = "sum" ->
          \* a + b = 1;
          << Identifier("a"), Punctuation("Plus"), Identifier("b"),
             Punctuation("Equal"), Number(1), Punctuation("Semicolon") >>)
    \o Snippet("print 1;") \o << EOF >>

AssignmentScenarios ==
  { [family |-> "assignment", variant |-> variant, stmts |-> << >>,
     operands |-> << >>, tokens |-> AssignmentTokens(variant)] :
      variant \in {"chain", "lowerPrecedence", "property", "literal",
                   "grouping", "sum"} }

\* every token array of at most MaxTokens tokens of TokenAlphabet with at
\* most MaxNesting opening tokens, then EOF
MaxTokens == 4
MaxNesting == 2
TokenAlphabet ==
  { Punctuation("Semicolon"), Punctuation("Print"), Number(1),
    Punctuation("LeftParen"), Punctuation("LeftBrace"),
    Punctuation("RightBrace") }

Nesting(tokens) ==
  Cardinality({ i \in DOMAIN tokens :
                  tokens[i].type \in {"LeftParen", "LeftBrace"} })

TokenScenarios ==
  { [family |-> "tokens", variant |-> "", stmts |-> << >>,
     operands |-> << >>, tokens |-> tokens \o << EOF >>] :
      tokens \in UNION { { t \in [1 .. n -> TokenAlphabet] : Nesting(t) <= MaxNesting } :
                          n \in 0 .. MaxTokens } }

MainScenarios ==
  SourceScenarios \cup ArityScenarios \cup AssignmentScenarios
    \cup TokenScenarios

(***************************************************************************)
(* The drivers.  `Spec` is the pipeline the interpreter is written for:    *)
(* construct the Interpreter, run Resolve over the statements, interpret   *)
(* them.  `SpecMain` is src/main.ts: parse the tokens, construct the       *)
(* Interpreter, interpret what parse() returned.                           *)
(*   scenario     the program that is run                                  *)
(*   pc           where the driver is                                      *)
(*   statements   the Statement[] of the driver                            *)
(*   ip           the statement interpret's loop is at                     *)
(*   scanner, parser, rs, interp   the Scanner, Parser, Resolve and        *)
(*                Interpreter objects                                      *)
(***************************************************************************)
VARIABLES scenario, pc, statements, ip, scanner, parser, rs, interp

vars == <<scenario, pc, statements, ip, scanner, parser, rs, interp>>

Init ==
  /\ scenario \in Scenarios \cup ForScenarios
  /\ pc = "constructed"
  /\ statements = scenario.stmts
  /\ ip = 1
  /\ scanner = NewScanner(<< >>)
  /\ parser = NewParser(scenario.tokens)
  /\ \E now \in (IF scenario.family = "clock" THEN 0 .. MaxNum ELSE {0}) :
       interp = NewInterpreter(now)
  /\ rs = NewResolve(interp)

\* new Resolve(interpreter).resolve(statements)
RunResolve ==
  /\ pc = "constructed"
  /\ \E r1 \in {Resolve_resolveAll(statements, 1, NewResolve(interp))} :
        /\ rs' = r1
        /\ interp' = r1.interpreter
        /\ pc' = IF r1.thrown # "none" THEN "resolveError" ELSE "ready"
  /\ UNCHANGED <<scenario, scanner, statements, ip, parser>>

\* one iteration of interpret's loop, with its catch: an exception that
\* reaches interpret is rethrown as Error("Runtime error.")
Interpret ==
  /\ pc \in {"ready", "running"}
  /\ ip <= Len(statements)
  /\ \E s1 \in {execute(statements[ip], interp)} :
        /\ interp' = s1
        /\ pc' = CASE s1.thrown = "none" -> "running"
                   [] s1.thrown = "cut" -> "cut"
                   [] OTHER -> "failed"
        /\ ip' = IF s1.thrown = "none" THEN ip + 1 ELSE ip
  /\ UNCHANGED <<scenario, scanner, statements, parser, rs>>

\* interpret returns: every statement was executed
InterpretReturn ==
  /\ pc \in {"ready", "running"}
  /\ ip > Len(statements)
  /\ pc' = "done"
  /\ UNCHANGED <<scenario, scanner, statements, ip, parser, rs, interp>>

Next == RunResolve \/ Interpret \/ InterpretReturn

Spec == Init /\ [][Next]_vars

\* main.ts after scanner.scanTokens(): new Parser(tokens)
InitMain ==
  /\ scenario \in MainScenarios
  /\ pc = "scanned"
  /\ statements = << >>
  /\ ip = 1
  /\ scanner = NewScanner(<< >>)
  /\ parser = NewParser(scenario.tokens)
  /\ interp = NewInterpreter(0)
  /\ rs = NewResolve(interp)

\* parse(): one iteration of while (!this.isAtEnd())
ParseDeclaration ==
  /\ pc = "scanned"
  /\ ~Parser_isAtEnd(parser)
  /\ parser' = ParseIteration(parser)
  /\ UNCHANGED <<scenario, scanner, pc, statements, ip, rs, interp>>

\* const [statements] = parser.parse(); new Interpreter()
ParseReturn ==
  /\ pc = "scanned"
  /\ Parser_isAtEnd(parser)
  /\ statements' = parser.statements
  /\ pc' = "ready"
  /\ UNCHANGED <<scenario, scanner, ip, parser, rs, interp>>

NextMain == ParseDeclaration \/ ParseReturn \/ Interpret \/ InterpretReturn

SpecMain == InitMain /\ [][NextMain]_vars

(***************************************************************************)
(* LoxClass, LoxFunction and LoxInstance on their own.  The Interpreter of *)
(* src/interpreter/lox_instance.ts builds a class without its methods and  *)
(* has no visitor for property access, so classes that have methods are    *)
(* built here with the constructors new LoxFunction(declaration, closure,  *)
(* isInitializer) and new LoxClass(name, superClass, methods), and         *)
(* LoxClass.call, LoxClass.findMethod, LoxInstance.get and LoxInstance.set *)
(* are called on them directly; calls through visitCallExpression are run  *)
(* as programs.                                                            *)
(*                                                                         *)
(*   function f(p) { print "f"; return p; }                                *)
(*   class A { init(p) { INIT } m() { return "A.m"; } n() { return "A.n"; } } *)
(*   class B < A { m() { return "B.m"; } }                                 *)
(*   class C < B { c(x, y) { return "C.c"; } }                             *)
(*   class D { m() { return "D.m"; } }                                     *)
(*   class E < A { init(p, q) { return; } }                                *)
(***************************************************************************)
\* the most arguments a call is given, the most fields an instance is given
MaxArgs == 2
MaxSets == 1

\* the bodies INIT of A's initializer: it ends, returns, returns a value,
\* returns a value from nested blocks, raises a runtime error
InitBodies == {"end", "return", "value", "nested", "error"}
InitBody(kind) ==
  CASE kind = "end" -> << PrintStatement(Lit(Str("init"))) >>
    [] kind = "return" ->
         << PrintStatement(Lit(Str("init"))), ReturnStatement(NoExpr),
            PrintStatement(Lit(Str("unreached"))) >>
    [] kind = "value" ->
         << PrintStatement(Lit(Str("init"))), ReturnStatement(Lit(Num(7))) >>
    [] kind = "nested" ->
         << Nested(2, ReturnStatement(Var(1, "p"))) >>
    [] kind = "error" ->
         << ExpressionStatement(UnaryExpression("Minus", Lit(Str("a")))) >>

Returning(name, params, value) ==
  FunctionStatement(name, params, << ReturnStatement(Lit(Str(value))) >>)

\* new LoxFunction(declaration, closure, isInitializer)
NewLoxFunction(declaration, closure, isInitializer) ==
  [declaration |-> declaration, closure |-> closure,
   isInitializer |-> isInitializer]

\* new LoxClass(name, superClass, methods)
NewLoxClass(name, superClass, methods) ==
  [name |-> name, superClass |-> superClass,
   methods |-> [defined |-> TRUE, map |-> methods]]

\* the interpreter that holds f and the classes A to E; environments 2, 3
\* and 4 are the ones that hold `super` for B, C and E
ClassWorld(kind) ==
  [NewInterpreter(0) EXCEPT
     !.envs = <<
       [enclosing |-> 0,
        values |-> ("clock" :> NativeClock @@ "f" :> FunRef(1)
                    @@ "A" :> ClassRef(1) @@ "B" :> ClassRef(2)
                    @@ "C" :> ClassRef(3) @@ "D" :> ClassRef(4)
                    @@ "E" :> ClassRef(5))],
       [enclosing |-> globals, values |-> ("super" :> ClassRef(1))],
       [enclosing |-> globals, values |-> ("super" :> ClassRef(2))],
       [enclosing |-> globals, values |-> ("super" :> ClassRef(1))] >>,
     !.funs = <<
       NewLoxFunction(FunctionStatement("f", <<"p">>, <<
         PrintStatement(Lit(Str("f"))), ReturnStatement(Var(2, "p")) >>),
         globals, FALSE),
       NewLoxFunction(FunctionStatement("init", <<"p">>, InitBody(kind)),
                      globals, TRUE),
       NewLoxFunction(Returning("m", << >>, "A.m"), globals, FALSE),
       NewLoxFunction(Returning("n", << >>, "A.n"), globals, FALSE),
       NewLoxFunction(Returning("m", << >>, "B.m"), 2, FALSE),
       NewLoxFunction(Returning("c", <<"x", "y">>, "C.c"), 3, FALSE),
       NewLoxFunction(Returning("m", << >>, "D.m"), globals, FALSE),
       NewLoxFunction(FunctionStatement("init", <<"p", "q">>, <<
         ReturnStatement(NoExpr) >>), 4, TRUE) >>,
     !.classes = <<
       NewLoxClass("A", 0, ("init" :> 2 @@ "m" :> 3 @@ "n" :> 4)),
       NewLoxClass("B", 1, ("m" :> 5)),
       NewLoxClass("C", 2, ("c" :> 6)),
       NewLoxClass("D", 0, ("m" :> 7)),
       NewLoxClass("E", 1, ("init" :> 8)) >>]

\* what is called: values that are not callable, f, clock, the classes
Callees ==
  {Nil, Bool(TRUE), Num(0), Str("a")}
    \cup { Ref(n) : n \in {"f", "clock", "A", "B", "C", "D", "E"} }

\* the argument lists 1, 2, ..., n
NumberLiterals(n) == [i \in 1 .. n |-> Lit(Num(i))]
Numbers(n) == [i \in 1 .. n |-> Num(i)]

\* var r = CALLEE(1, ..., n);   in the world whose initializer is INIT
CallScenarios ==
  { Scenario("calls", kind, <<callee, Num(n)>>, <<
      VariableStatement("r",
        CallExpression(Operand(1, callee), NumberLiterals(n))) >>) :
    kind \in InitBodies, callee \in Callees, n \in 0 .. MaxArgs }

\* no program: the objects are used directly
ObjectScenarios ==
  { Scenario("objects", kind, << >>, << >>) : kind \in InitBodies }

\* the names looked up on classes and instances
PropertyNames == {"init", "m", "n", "c", "x"}

InitClasses ==
  /\ scenario \in CallScenarios \cup ObjectScenarios
  /\ pc = IF scenario.family = "calls" THEN "ready" ELSE "objects"
  /\ statements = scenario.stmts
  /\ ip = 1
  /\ scanner = NewScanner(<< >>)
  /\ parser = NewParser(scenario.tokens)
  /\ interp = ClassWorld(scenario.variant)
  /\ rs = NewResolve(interp)

\* cls.call(interpreter, args)
ClassCall ==
  /\ pc = "objects"
  /\ \E c \in DOMAIN interp.classes, n \in 0 .. MaxArgs :
       \E s1 \in {LoxClass_call(interp, c, Numbers(n))} :
         interp' = Log(s1, [e |-> "classCall", cls |-> c,
                            instances |-> Len(interp.instances),
                            returned |-> s1.v])
  /\ pc' = "made"
  /\ UNCHANGED <<scenario, scanner, statements, ip, parser, rs>>

\* cls.findMethod(name)
FindMethod ==
  /\ pc = "objects"
  /\ \E c \in DOMAIN interp.classes, name \in PropertyNames :
       \E s1 \in {LoxClass_findMethod(interp, c, name)} :
         interp' = Log(s1, [e |-> "findMethod", cls |-> c, name |-> name,
                            returned |-> s1.v])
  /\ pc' = "found"
  /\ UNCHANGED <<scenario, scanner, statements, ip, parser, rs>>

\* instance.set(name, value), on the instance made last
InstanceSet ==
  /\ pc = "made"
  /\ ip <= MaxSets
  /\ \E name \in PropertyNames, value \in {Num(0), Str("a")} :
       interp' = LoxInstance_set(interp, Len(interp.instances), name, value)
  /\ ip' = ip + 1
  /\ UNCHANGED <<scenario, scanner, pc, statements, parser, rs>>

\* instance.get(name), on the instance made last; the history entry says
\* how many functions and environments there were before
InstanceGet ==
  /\ pc = "made"
  /\ \E name \in PropertyNames :
       \E s1 \in {LoxInstance_get(interp, Len(interp.instances), name)} :
         interp' = Log(s1, [e |-> "get", instance |-> Len(interp.instances),
                            name |-> name, funs |-> Len(interp.funs),
                            envs |-> Len(interp.envs),
                            failed |-> s1.thrown # "none",
                            returned |-> s1.v])
  /\ pc' = "got"
  /\ UNCHANGED <<scenario, scanner, statements, ip, parser, rs>>

NextClasses ==
  ClassCall \/ FindMethod \/ InstanceSet \/ InstanceGet \/ Interpret
    \/ InterpretReturn

SpecClasses == InitClasses /\ [][NextClasses]_vars

(***************************************************************************)
(* Environment on its own: one call of assign, get, getAt or assignAt on   *)
(* an environment of a chain of at most MaxChain environments.  The first  *)
(* environment of the chain is the globals; environment k holds some of    *)
(* the names a and b, each with the value k.  The call is recorded with    *)
(* the environments before and after it.                                   *)
(***************************************************************************)
MaxChain == 3
ChainNames == {"a", "b"}
CalledNames == {"a", "b", "c"}
Assigned == Str("new")

EnvironmentChain(n, names) ==
  [NewInterpreter(0) EXCEPT
     !.envs = [k \in 1 .. n |->
                 [enclosing |-> k - 1,
                  values |-> [x \in names[k] |-> Num(k)]]]]

EnvironmentCall(method, env, name, distance, before, s1, returned) ==
  [e |-> method, env |-> env, name |-> name, distance |-> distance,
   before |-> before.envs, after |-> s1.envs,
   failed |-> s1.thrown # "none", returned |-> returned]

InitEnvironment ==
  /\ scenario = [family |-> "environment", variant |-> "", stmts |-> << >>,
                 operands |-> << >>, tokens |-> << EOF >>]
  /\ pc = "environment"
  /\ statements = << >>
  /\ ip = 1
  /\ scanner = NewScanner(<< >>)
  /\ parser = NewParser(scenario.tokens)
  /\ \E n \in 1 .. MaxChain : \E names \in [1 .. n -> SUBSET ChainNames] :
       interp = EnvironmentChain(n, names)
  /\ rs = NewResolve(NewInterpreter(0))

\* environment.assign(name, value)
EnvironmentAssign ==
  /\ pc = "environment"
  /\ \E env \in DOMAIN interp.envs : \E name \in CalledNames :
       \E s1 \in {assign(interp, env, name, Assigned)} :
         interp' = Log(s1, EnvironmentCall("assign", env, name, 0, interp,
                                           s1, Nil))
  /\ pc' = "called"
  /\ UNCHANGED <<scenario, statements, ip, scanner, parser, rs>>

\* environment.get(name)
EnvironmentGet ==
  /\ pc = "environment"
  /\ \E env \in DOMAIN interp.envs : \E name \in CalledNames :
       \E s1 \in {get(interp, env, name)} :
         interp' = Log(s1, EnvironmentCall("get", env, name, 0, interp,
                                           s1, s1.v))
  /\ pc' = "called"
  /\ UNCHANGED <<scenario, statements, ip, scanner, parser, rs>>

\* environment.getAt(distance, name)
EnvironmentGetAt ==
  /\ pc = "environment"
  /\ \E env \in DOMAIN interp.envs : \E name \in CalledNames :
       \E distance \in 0 .. MaxChain :
         interp' = Log(interp,
                       EnvironmentCall("getAt", env, name, distance, interp,
                                       interp,
                                       getAt(interp, env, distance, name)))
  /\ pc' = "called"
  /\ UNCHANGED <<scenario, statements, ip, scanner, parser, rs>>

\* environment.assignAt(distance, name, value)
EnvironmentAssignAt ==
  /\ pc = "environment"
  /\ \E env \in DOMAIN interp.envs : \E name \in CalledNames :
       \E distance \in 0 .. MaxChain :
         \E s1 \in {assignAt(interp, env, distance, name, Assigned)} :
           interp' = Log(s1, EnvironmentCall("assignAt", env, name, distance,
                                             interp, s1, Nil))
  /\ pc' = "called"
  /\ UNCHANGED <<scenario, statements, ip, scanner, parser, rs>>

NextEnvironment ==
  EnvironmentAssign \/ EnvironmentGet \/ EnvironmentGetAt
    \/ EnvironmentAssignAt

SpecEnvironment == InitEnvironment /\ [][NextEnvironment]_vars

(***************************************************************************)
(* The Scanner on its own: scanTokens() over every source of at most       *)
(* MaxSource characters of SourceAlphabet and over a few longer sources.   *)
(***************************************************************************)
MaxSource == 4
SourceAlphabet == {"\"", "\n", "a", "1", "=", "/", "@"}

ShortSources == UNION { [1 .. n -> SourceAlphabet] : n \in 0 .. MaxSource }

LongSources ==
  {
    \* a string over two lines, then a statement on line 3
    << "v", "a", "r", " ", "a", " ", "=", " ", "\"", "x", "\n", "y", "\"",
       ";", "\n", "p", "r", "i", "n", "t", " ", "a", ";" >>,
    \* a string over three lines
    << "\"", "x", "\n", "\n", "y", "\"", " ", "+", " ", "1", "\n" >>,
    \* an unterminated string that starts on line 2
    << "v", "a", "r", " ", "a", " ", "=", " ", "1", ";", "\n", "\"", "x" >>,
    \* an unterminated string over two lines
    << "\"", "x", "\n", "y" >>,
    \* every kind of token
    << "/", "/", " ", "c", "\n", "(", ")", "{", "}", ",", ".", "-", "+",
       "*", "%", ";", "\n", "!", " ", "!", "=", " ", "=", " ", "=", "=",
       " ", "<", " ", "<", "=", " ", ">", " ", ">", "=", " ", "/", "\t",
       "1", ".", "5", " ", "1", "2", " ", "1", ".", "0", " ", "o", "r",
       " ", "_", "b" >>,
    \* an unexpected character on line 2
    << "a", "\n", "@" >> }

InitScanner ==
  /\ scenario = [family |-> "scan", variant |-> "", stmts |-> << >>,
                 operands |-> << >>, tokens |-> << EOF >>]
  /\ pc = "scanning"
  /\ statements = << >>
  /\ ip = 1
  /\ \E source \in ShortSources \cup LongSources :
       scanner = NewScanner(source)
  /\ parser = NewParser(scenario.tokens)
  /\ interp = NewInterpreter(0)
  /\ rs = NewResolve(interp)

\* scanTokens(): one iteration of  while (!this.isAtEnd())
ScanToken ==
  /\ pc = "scanning"
  /\ ~Scanner_isAtEnd(scanner)
  /\ \E s1 \in {Scanner_scanToken([scanner EXCEPT !.start = scanner.current])} :
       /\ scanner' = s1
       /\ pc' = IF s1.thrown # "none" THEN "scanError" ELSE pc
  /\ UNCHANGED <<scenario, statements, ip, parser, rs, interp>>

\* scanTokens() after the loop: push the EOF token and return the tokens
ScanReturn ==
  /\ pc = "scanning"
  /\ Scanner_isAtEnd(scanner)
  /\ scanner' = [scanner EXCEPT
                   !.tokens = Append(@, Token("EOF", "", Nil, scanner.line)),
                   !.starts = Append(@, scanner.current)]
  /\ pc' = "scanned"
  /\ UNCHANGED <<scenario, statements, ip, parser, rs, interp>>

NextScanner == ScanToken \/ ScanReturn

SpecScanner == InitScanner /\ [][NextScanner]_vars

(***************************************************************************)
(* Properties.  They read the interpreter's history (interp.trace), its    *)
(* output (interp.out) and its environments.                               *)
(***************************************************************************)
Trace == interp.trace
Events(kind) == { i \in DOMAIN Trace : Trace[i].e = kind }
IsPrefix(s, t) == Len(s) <= Len(t) /\ SubSeq(t, 1, Len(s)) = s
Global(name) == interp.envs[globals].values[name]
HasGlobal(name) == name \in DOMAIN interp.envs[globals].values
\* nil and false, the two values Lox calls false
Falsey(x) == x.k = "nil" \/ (x.k = "bool" /\ ~x.v)

\* C1: a runtime error raised while a statement executes, in a called
\* function's body too, makes interpret fail, and no statement is executed
\* after the point of failure.
RuntimeErrorAbortsInterpret ==
  \A i \in Events("throw") :
    /\ pc = "failed"
    /\ \A j \in Events("execute") : j < i

\* C2: when the front end has reported a diagnostic, no statement of the
\* program is executed.
DiagnosticsPreventExecution ==
  parser.errors # << >> => Events("execute") = {}

\* C3: a function keeps the environment that was current at its
\* declaration; every call runs in a new environment enclosed by it,
\* whatever environment is current at the call site; the counter of
\* makeCounter prints 1 and then 2.
ClosureCapturesDefiningEnvironment ==
  /\ \A i \in Events("function") :
       interp.funs[Trace[i].f].closure = Trace[i].current
  /\ \A i \in Events("call") :
       /\ Trace[i].enclosing = interp.funs[Trace[i].f].closure
       /\ Trace[i].environment > Trace[i].existing
  /\ scenario.family = "counter" =>
       /\ pc # "failed"
       /\ IsPrefix(interp.out, <<"1", "2">>)
       /\ pc = "done" => interp.out = <<"1", "2">>

\* C3 happens: the counter was called twice from inside a function that has
\* an n of its own, and printed 1 and 2
CounterCalledFromFunction ==
  /\ scenario.family = "counter" /\ scenario.variant = "function"
  /\ pc = "done"
  /\ interp.out = <<"1", "2">>
  /\ \E i \in Events("call") :
       Trace[i].enclosing \notin {globals, interp.environment}

\* the environment that holds the outer a of a shadow program
OuterOfShadow == IF scenario.variant = "global" THEN globals ELSE 2

\* C4: a variable declared in a block shadows the outer one of the same
\* name inside the block only: the inner print shows the inner value, the
\* print after the block the outer value, and the outer binding is never
\* changed.
BlockShadowsOuterVariable ==
  scenario.family = "shadow" =>
    /\ pc # "failed"
    /\ IsPrefix(interp.out, << stringify(interp, scenario.operands[2]),
                               stringify(interp, scenario.operands[1]) >>)
    /\ pc = "done" => Len(interp.out) = 2
    /\ (OuterOfShadow <= Len(interp.envs)
        /\ "a" \in DOMAIN interp.envs[OuterOfShadow].values)
       => interp.envs[OuterOfShadow].values["a"] = scenario.operands[1]

\* C4 happens: inner and outer value differ and both were printed
ShadowedAndRestored ==
  /\ scenario.family = "shadow" /\ scenario.variant = "block"
  /\ scenario.operands = << Num(0), Str("a") >>
  /\ pc = "done"
  /\ interp.out = << "a", "0" >>

\* C5: a variable expression with depth d is read from the environment d
\* links up, which exists and holds the name; one without a depth is found
\* in the globals or raises a runtime error.
LookupFollowsResolution ==
  \A i \in Events("lookup") :
    IF Trace[i].depth >= 0
    THEN Trace[i].target # 0 /\ Trace[i].bound
    ELSE Trace[i].from \in {0, globals}

\* the scopes around one place of a program: a sequence of sets of names,
\* innermost last, without the global scope
Declares(stmt) == stmt.t \in {"Var", "Function", "Class"}
Declare(scopes, stmt) ==
  IF Declares(stmt) /\ Len(scopes) > 0
  THEN [scopes EXCEPT ![Len(scopes)] = @ \cup {stmt.name}]
  ELSE scopes
Holding(scopes, name) == { i \in DOMAIN scopes : name \in scopes[i] }
\* the number of scopes between a use and the innermost declaration, or -1
Distance(scopes, name) ==
  IF Holding(scopes, name) = {} THEN -1
  ELSE Len(scopes) - (CHOOSE i \in Holding(scopes, name) :
                        \A j \in Holding(scopes, name) : j <= i)
Names(params) == { params[i] : i \in DOMAIN params }
MethodScopes(scopes, stmt) ==
  (IF stmt.superClass.t = "null" THEN scopes ELSE Append(scopes, {"super"}))
    \o << {"this"} >>

\* every variable and assignment expression of a program: its id, the
\* number of block, function and method scopes around it, and the distance
\* to the declaration of its name
RECURSIVE Refs(_, _), RefsAll(_, _, _), RefsMethods(_, _, _)
RefsAll(nodes, i, scopes) ==
  IF i > Len(nodes) THEN {}
  ELSE Refs(nodes[i], scopes)
         \cup RefsAll(nodes, i + 1, Declare(scopes, nodes[i]))
RefsMethods(methods, i, scopes) ==
  IF i > Len(methods) THEN {}
  ELSE RefsAll(methods[i].body, 1, Append(scopes, Names(methods[i].params)))
         \cup RefsMethods(methods, i + 1, scopes)
Refs(node, scopes) ==
  CASE node.t = "Variable" ->
         {[id |-> node.id, nest |-> Len(scopes),
           depth |-> Distance(scopes, node.name)]}
    [] node.t = "Assign" ->
         Refs(node.value, scopes)
           \cup {[id |-> node.id, nest |-> Len(scopes),
                  depth |-> Distance(scopes, node.name)]}
    [] node.t \in {"Binary", "Logical"} ->
         Refs(node.left, scopes) \cup Refs(node.right, scopes)
    [] node.t = "Grouping" -> Refs(node.expression, scopes)
    [] node.t = "Unary" -> Refs(node.right, scopes)
    [] node.t = "Call" ->
         Refs(node.callee, scopes) \cup RefsAll(node.args, 1, scopes)
    [] node.t = "Get" -> Refs(node.object, scopes)
    [] node.t = "Set" -> Refs(node.object, scopes) \cup Refs(node.value, scopes)
    [] node.t \in {"Expression", "Print"} -> Refs(node.expression, scopes)
    [] node.t = "Var" -> Refs(node.initializer, Declare(scopes, node))
    [] node.t = "Block" -> RefsAll(node.stmts, 1, Append(scopes, {}))
    [] node.t = "If" ->
         Refs(node.condition, scopes) \cup Refs(node.thenBranch, scopes)
           \cup Refs(node.elseBranch, scopes)
    [] node.t = "While" -> Refs(node.condition, scopes) \cup Refs(node.body, scopes)
    [] node.t = "Return" -> Refs(node.value, scopes)
    [] node.t = "Function" ->
         RefsAll(node.body, 1,
                 Append(Declare(scopes, node), Names(node.params)))
    [] node.t = "Class" ->
         Refs(node.superClass, Declare(scopes, node))
           \cup RefsMethods(node.methods, 1,
                            MethodScopes(Declare(scopes, node), node))
    [] OTHER -> {}
ProgramRefs == RefsAll(statements, 1, << >>)
Resolved == pc \notin {"constructed", "resolveError"}

\* C6 as the specification states it: after the resolver has run, every
\* variable and assignment expression inside a block scope has a depth, and
\* none in the global scope has.
EveryLocalReferenceHasDepth ==
  Resolved =>
    \A r \in ProgramRefs :
      IF r.nest > 0 THEN r.id \in DOMAIN interp.locals
      ELSE r.id \notin DOMAIN interp.locals

\* C6, amended: after the resolver has run, a variable or assignment
\* expression has a depth exactly when its name is declared in one of the
\* block, function or method scopes around it, and the depth is the number
\* of scopes between the expression and the innermost such declaration; an
\* expression in the global scope, or one whose name is declared only in
\* the global scope, has none.
DeclaredLocalReferenceHasDepth ==
  Resolved =>
    \A r \in ProgramRefs :
      /\ r.nest = 0 => r.id \notin DOMAIN interp.locals
      /\ IF r.depth >= 0
         THEN r.id \in DOMAIN interp.locals /\ interp.locals[r.id] = r.depth
         ELSE r.id \notin DOMAIN interp.locals

\* C6 happens: a function in a block reads and assigns a variable of the
\* block from a block of its own, two scopes up
ResolvedAcrossScopes ==
  /\ scenario.variant = "nestedCapture"
  /\ pc = "ready"
  /\ DOMAIN interp.locals = 1 .. 5
  /\ interp.locals[1] = 2 /\ interp.locals[2] = 2
  /\ interp.locals[3] = 1 /\ interp.locals[5] = 0

\* C7: executeBlock leaves the interpreter's environment as it found it,
\* however its statements end: normally, by a return, by a runtime error;
\* between the statements of the program the environment is the globals.
ExecuteBlockRestoresEnvironment ==
  /\ \A i \in Events("executeBlock") : Trace[i].after = Trace[i].previous
  /\ interp.environment = globals

\* C7 happens: a block two deep in a function, called from a block, was left
\* by a runtime error, and the caller's block went on in its environment
BlockLeftByError ==
  /\ scenario.family = "unwind" /\ scenario.variant = "function"
  /\ scenario.operands = << Str("error"), Num(2) >>
  /\ pc = "done"
  /\ \E i \in Events("executeBlock") :
       /\ Trace[i].exit = "error"
       /\ Trace[i].previous \notin {globals, Trace[i].entered}
  /\ \E i \in Events("executeBlock") : Trace[i].exit = "none"
  /\ interp.out = << "1", "after" >>

\* what == gives for two values: true for nil and nil, false for values of
\* different kinds, the host's equality otherwise
Equals(a, b) == a.k = b.k /\ a.v = b.v
ExpectedEquality ==
  LET a == OperandValue(interp, scenario.operands[1])
      b == OperandValue(interp, scenario.operands[2])
  IN Bool(IF scenario.variant = "EqualEqual" THEN Equals(a, b)
          ELSE ~Equals(a, b))

\* C8: == and != never raise a runtime error, whatever the operands; nil
\* equals nil, and != is the negation of ==.
EqualityNeverRaises ==
  scenario.family = "equality" =>
    /\ pc # "failed"
    /\ HasGlobal("r") => Global("r") = ExpectedEquality

\* C9: isTruthy is false for nil and false only: 0, the empty string,
\* functions, classes and instances are true; if, while, !, and, or decide
\* by it.
TruthyValues ==
  Literals \cup {FunRef(1), ClassRef(1), InstanceRef(1), NativeClock, Float,
                 Num(0 - 1)}
ExpectedTruth ==
  LET x == OperandValue(interp, scenario.operands[1])
  IN [truthy |-> ~Falsey(x),
      out |-> IF ~Falsey(x) THEN << "T", "W" >> ELSE << "F" >>,
      a |-> IF ~Falsey(x) THEN Str("A") ELSE x,
      o |-> IF ~Falsey(x) THEN x ELSE Str("B")]
ExpectedLogical ==
  LET x == scenario.operands[1]
      y == scenario.operands[2]
      short == IF scenario.variant = "Or" THEN ~Falsey(x) ELSE Falsey(x)
  IN [out |-> IF short THEN << "a" >> ELSE << "a", "b" >>,
      r |-> IF short THEN x ELSE y]

\* C10: a or b and a and b evaluate a once; b is evaluated only when a does
\* not decide (a false for or, a true for and); the result is the value of
\* the operand that decided, not a Boolean.
LogicalOperatorsShortCircuit ==
  scenario.family = "logical" =>
    /\ pc # "failed"
    /\ IsPrefix(interp.out, ExpectedLogical.out)
    /\ HasGlobal("r") => /\ interp.out = ExpectedLogical.out
                         /\ Global("r") = ExpectedLogical.r

\* C10 happens: 0 or nil gave 0 without evaluating the right operand
OrStoppedAtLeftOperand ==
  /\ scenario.family = "logical" /\ scenario.variant = "Or"
  /\ scenario.operands = << Num(0), Nil >>
  /\ pc = "done"
  /\ interp.out = << "a" >>
  /\ Global("r") = Num(0)

\* what the programs of the order family print and leave in r
ExpectedOrder ==
  CASE scenario.variant = "binary" ->
         [out |-> << "a", "b" >>,
          r |-> LET op == scenario.operands[1].v
                IN IF op \in {"Plus", "Minus", "Star", "Slash"}
                   THEN Arith(op, Num(1), Num(2))
                   ELSE Bool(op \in {"Less", "LessEqual", "BangEqual"})]
    [] scenario.variant = "nested" -> [out |-> << "a", "b", "c" >>, r |-> Num(-5)]
    [] scenario.variant = "assign" -> [out |-> << >>, r |-> Num(0)]
    [] scenario.variant = "call" ->
         [out |-> << "g", "a", "b", "h" >>, r |-> Num(-1)]
    [] scenario.variant = "arguments" -> [out |-> << >>, r |-> Num(-2)]

\* C11: subexpressions are evaluated left to right: the left operand of a
\* binary expression completely before the right one, the callee of a call
\* before its arguments, the arguments in source order; the prints and
\* assignments inside them happen in that order.
SubexpressionsLeftToRight ==
  scenario.family = "order" =>
    /\ pc # "failed"
    /\ IsPrefix(interp.out, ExpectedOrder.out)
    /\ HasGlobal("r") => /\ interp.out = ExpectedOrder.out
                         /\ Global("r") = ExpectedOrder.r

\* C11 happens: g()(a(), b()) printed g, a, b and then ran the callee
CalleeThenArgumentsInOrder ==
  /\ scenario.family = "order" /\ scenario.variant = "call"
  /\ pc = "done"
  /\ interp.out = << "g", "a", "b", "h" >>
  /\ Global("r") = Num(-1)

\* the arities of f, clock and the classes: a class has the arity of the
\* init nearest in its chain (A, B and C the one of A.init, E its own),
\* D, which has none, 0
ArityOf ==
  [f |-> 1, clock |-> 0, A |-> 1, B |-> 1, C |-> 1, D |-> 0, E |-> 2]
CallAccepted ==
  /\ scenario.operands[1].k = "ref"
  /\ scenario.operands[2].v = ArityOf[scenario.operands[1].v]

WithInitializer == {"A", "B", "C", "E"}

RECURSIVE ClassChain(_)
ClassChain(c) ==
  IF c = 0 THEN << >>
  ELSE << c >> \o ClassChain(interp.classes[c].superClass)
\* the places of the chain whose class defines name
Defining(c, name) ==
  { k \in DOMAIN ClassChain(c) :
      name \in DOMAIN interp.classes[ClassChain(c)[k]].methods.map }
\* the method of the first class of the chain that defines name, or nil
NearestMethod(c, name) ==
  IF Defining(c, name) = {} THEN Nil
  ELSE LET k == CHOOSE k \in Defining(c, name) :
                  \A j \in Defining(c, name) : k <= j
       IN FunRef(interp.classes[ClassChain(c)[k]].methods.map[name])

\* instance.get(name) gave a function bound to the instance: a new function
\* with the declaration and the isInitializer of `method`, whose closure is
\* a new environment over the closure of `method` that holds this
BoundTo(e, method) ==
  /\ e.returned.k = "fun"
  /\ e.returned.v > e.funs
  /\ interp.funs[e.returned.v].declaration = interp.funs[method].declaration
  /\ interp.funs[e.returned.v].isInitializer = interp.funs[method].isInitializer
  /\ interp.funs[e.returned.v].closure > e.envs
  /\ interp.envs[interp.funs[e.returned.v].closure].enclosing
       = interp.funs[method].closure
  /\ getAt(interp, interp.funs[e.returned.v].closure, 0, "this")
       = InstanceRef(e.instance)

\* C14: property access on an instance gives the field of that name when
\* there is one, even if the class has a method of that name; otherwise the
\* method found on the class chain, bound to the instance (a new function
\* over a new environment that holds this, same isInitializer); a runtime
\* error when there is neither.
GetGivesFieldOrBoundMethod ==
  \A i \in Events("get") :
    LET e == Trace[i]
        fields == interp.instances[e.instance].fields
        method == NearestMethod(interp.instances[e.instance].cls, e.name)
    IN IF e.name \in DOMAIN fields
       THEN ~e.failed /\ e.returned = fields[e.name]
       ELSE IF method.k # "nil"
       THEN ~e.failed /\ BoundTo(e, method.v)
       ELSE e.failed

Rejected(message) == pc = "resolveError" /\ rs.message = message
Accepted == pc \notin {"constructed", "resolveError"}
IsProgram(names) == scenario.family = "resolve" /\ scenario.variant \in names

\* C16: the resolver resolves a method named init as an initializer and
\* every other method as a method: a return with a value anywhere in the
\* body of an init is a resolve error, a bare return there is accepted.
InitializerCannotReturnValue ==
  pc # "constructed" =>
    /\ IsProgram({"initValue", "initNestedValue"}) =>
         Rejected("Can't return a value from an initializer.")
    /\ IsProgram({"initBare", "methodValue"}) => Accepted

\* C17: in a scope that is not the global one a variable is declared before
\* its initializer is resolved and defined after it: a read of the
\* variable's own name in its initializer is a resolve error, also when an
\* outer scope has a variable of that name; a read after the declaration
\* is resolved to it.  In the global scope nothing is tracked and no such
\* error is raised.
OwnInitializerRejectedInLocalScope ==
  pc # "constructed" =>
    /\ (\/ IsProgram({"shadowOwnInitializer", "functionOwnInitializer"})
        \/ (scenario.family = "rejected"
             /\ scenario.variant = "ownInitializer"))
         => /\ Rejected("Can't read local variable and its own initializer.")
            /\ interp.locals = << >>
    /\ IsProgram({"afterDefinition"}) =>
         /\ Accepted
         /\ interp.locals = (1 :> 0 @@ 2 :> 1 @@ 3 :> 1)
    /\ IsProgram({"globalOwnInitializer"}) =>
         /\ Accepted
         /\ interp.locals = << >>

\* C17 happens: { var a = 1; { var a = a; } } was rejected although the
\* outer block has a defined a
InnerInitializerReadsItself ==
  /\ IsProgram({"shadowOwnInitializer"})
  /\ Rejected("Can't read local variable and its own initializer.")
  /\ Len(rs.scopes) = 2
  /\ rs.scopes[1]["a"] = TRUE
  /\ rs.scopes[2]["a"] = FALSE

\* C18: declaring a name (variable, function, class, parameter) that the
\* same scope already has is a resolve error in every scope but the global
\* one; in the global scope it is accepted and at run time the later
\* definition replaces the earlier one.
RedeclarationRejectedInLocalScope ==
  pc # "constructed" =>
    /\ (\/ IsProgram({"redeclaredFunction", "redeclaredClass",
                      "redeclaredParameter", "parameterAsLocal"})
        \/ (scenario.family = "rejected" /\ scenario.variant = "redeclared"))
         => Rejected("Already a variable with this name in this scope.")
    /\ IsProgram({"innerBlock"}) =>
         /\ Accepted /\ pc # "failed"
         /\ pc = "done" => interp.out = << "2", "1" >>
    /\ IsProgram({"globalRedeclared"}) =>
         /\ Accepted /\ pc # "failed"
         /\ pc = "done" => interp.out = << "hi!" >> /\ Global("a") = Str("hi!")
    /\ IsProgram({"globalFunctionRedeclared"}) =>
         /\ Accepted /\ pc # "failed"
         /\ pc = "done" => interp.out = << "2" >>

\* C18 happens: function f(p) { var p; } was rejected at the var
ParameterRedeclared ==
  /\ IsProgram({"parameterAsLocal"})
  /\ Rejected("Already a variable with this name in this scope.")
  /\ Len(rs.scopes) = 1
  /\ rs.scopes[1]["p"] = TRUE

\* C19: a return is a resolve error exactly when it is in no function or
\* method body; the enclosing function kind is put back when a function
\* declaration ends: a return after a nested function in a function is
\* accepted, a return at the top level after functions is rejected.
ReturnRejectedOutsideFunctions ==
  pc # "constructed" =>
    /\ (\/ IsProgram({"returnAfterFunctions", "returnInBlock"})
        \/ (scenario.family = "rejected" /\ scenario.variant = "topReturn"))
         => Rejected("Can't return from top-level code.")
    /\ IsProgram({"returnAfterNested", "returnInLoop", "returnInMethod",
                  "methodValue", "initBare"}) => Accepted
    /\ (IsProgram({"returnAfterNested"}) /\ pc = "done") => interp.out = << "1" >>
    /\ (IsProgram({"returnInLoop"}) /\ pc = "done") => interp.out = << "3" >>

\* C19 happens: the return after function f() {} function g() { return; }
\* was rejected, with the function kind back at NONE
TopLevelReturnAfterFunctions ==
  /\ IsProgram({"returnAfterFunctions"})
  /\ Rejected("Can't return from top-level code.")
  /\ rs.currentFunction = "NONE"
  /\ rs.scopes = << >>

\* C20: this outside every class, super outside every class and super in a
\* class without a superclass are resolve errors; the enclosing class kind
\* is put back when a class declaration ends, so the errors are reported
\* after a class declaration too.
ThisAndSuperRejectedOutsideClasses ==
  pc # "constructed" =>
    /\ (\/ IsProgram({"thisInFunction", "thisAfterClass"})
        \/ (scenario.family = "rejected" /\ scenario.variant = "thisOutside"))
         => Rejected("Can't use 'this' outside of a class")
    /\ IsProgram({"superOutside", "superAfterClass"}) =>
         Rejected("Can't use 'super' outside of a class")
    /\ IsProgram({"superWithoutSuperclass", "superAfterSubclass",
                  "superInNestedClass"}) =>
         Rejected("Can't use 'super' in a class with no superclass.")
    /\ IsProgram({"superAfterNestedClass"}) =>
         /\ Accepted
         /\ interp.locals = (2 :> 1 @@ 3 :> 2)
    /\ (scenario.family = "scope" /\ scenario.variant = "classes") => Accepted

\* C20 happens: print this after class K { m() { return this; } } was
\* rejected; the this inside the method had been resolved
ThisAfterClassRejected ==
  /\ IsProgram({"thisAfterClass"})
  /\ Rejected("Can't use 'this' outside of a class")
  /\ rs.currentClass = "NONE"
  /\ interp.locals = (1 :> 1)

\* the parser has returned from parse()
Parsed == pc # "scanned"
\* n copies of x
Repeat(x, n) == [i \in 1 .. n |-> x]
ListLength == scenario.operands[1].v
TooLong ==
  IF scenario.variant = "parameters"
  THEN "Can't have more than 255 parameters"
  ELSE "Can't have more than 255 arguments"

\* C21: a parameter list or an argument list of at most 255 entries is
\* parsed without an error; a list of 256 or more entries adds an error to
\* the parser's error list without unwinding: the function declaration or
\* the call is produced with all its entries, and the statement after it
\* is parsed.
LongListsReportedWithoutUnwinding ==
  (scenario.family = "arity" /\ Parsed) =>
    /\ parser.log = << >>
    /\ ListLength <= 255 => parser.errors = << >>
    /\ ListLength >= 256 =>
         /\ parser.errors # << >>
         /\ \A i \in DOMAIN parser.errors : parser.errors[i] = TooLong
    /\ parser.statements =
         << IF scenario.variant = "parameters"
            THEN FunctionStatement("f", Repeat("p", ListLength), << >>)
            ELSE ExpressionStatement(
                   CallExpression(VariableExpression(1, "f"),
                                  Repeat(LiteralExpression(Num(1)), ListLength))),
            PrintStatement(LiteralExpression(Num(1))) >>

\* C21 happens: a function with 256 parameters was parsed, with one error
\* and both statements
FunctionWith256Parameters ==
  /\ scenario.family = "arity" /\ scenario.variant = "parameters"
  /\ ListLength = 256
  /\ Parsed
  /\ parser.errors = << "Can't have more than 255 parameters" >>
  /\ Len(parser.statements) = 2
  /\ Len(parser.statements[1].params) = 256

\* Block[init, While(cond, Block[body, inc])] for the loops of ForScenarios:
\* init is var i = 0, body is print i, inc is i = i + 1; the numbers are
\* the positions of the identifier and `=` tokens
Desugared(cond, body, equals, read) ==
  BlockStatement(<<
    VariableStatement("i", LiteralExpression(Num(0))),
    WhileStatement(cond, BlockStatement(<<
      PrintStatement(VariableExpression(body, "i")),
      ExpressionStatement(
        AssignExpression(equals, "i",
          BinaryExpression(VariableExpression(read, "i"), "Plus",
                           LiteralExpression(Num(1))))) >>)) >>)
Below(limit) ==
  BinaryExpression(VariableExpression(8, "i"), "Less",
                   LiteralExpression(Num(limit)))
Counted(n) == [i \in 1 .. n |-> ToString(i - 1)]

InvalidTarget == "Equal - = - null Invalid assignment target"
PrintOne == PrintStatement(LiteralExpression(Num(1)))

\* C23 without the Get case: the right side of `=` is parsed recursively,
\* a Variable left side gives Assign, another left side records "Invalid
\* assignment target" without unwinding and the statement is the left
\* side; the statement after it is parsed.
VariableTargetsAssignOthersReport ==
  (scenario.family = "assignment" /\ scenario.variant # "property" /\ Parsed) =>
    /\ parser.log = << >>
    /\ Len(parser.statements) = 2
    /\ parser.statements[2] = PrintOne
    /\ scenario.variant = "chain" =>
         /\ parser.errors = << >>
         /\ parser.statements[1] = ExpressionStatement(
              AssignExpression(2, "a",
                AssignExpression(4, "b", LiteralExpression(Num(1)))))
    /\ scenario.variant = "lowerPrecedence" =>
         /\ parser.errors = << >>
         /\ parser.statements[1] = ExpressionStatement(
              AssignExpression(2, "a",
                LogicalExpression(LiteralExpression(Num(0)), "Or",
                                  LiteralExpression(Num(1)))))
    /\ scenario.variant = "literal" =>
         /\ parser.errors = << InvalidTarget >>
         /\ parser.statements[1] = ExpressionStatement(LiteralExpression(Num(1)))
    /\ scenario.variant = "grouping" =>
         /\ parser.errors = << InvalidTarget >>
         /\ parser.statements[1] = ExpressionStatement(
              GroupingExpression(VariableExpression(2, "a")))
    /\ scenario.variant = "sum" =>
         /\ parser.errors = << InvalidTarget >>
         /\ parser.statements[1] = ExpressionStatement(
              BinaryExpression(VariableExpression(1, "a"), "Plus",
                               VariableExpression(3, "b")))

\* C23: in an assignment a Variable left side gives Assign, a Get left
\* side gives Set, any other left side records "Invalid assignment target"
\* without unwinding, and the parser goes on after the right-hand side.
\* a.b = 1; must give the statement Set(a, b, 1) and no error.
AssignmentTargetsGiveAssignOrSet ==
  /\ VariableTargetsAssignOthersReport
  /\ (scenario.family = "assignment" /\ scenario.variant = "property" /\ Parsed) =>
       /\ parser.errors = << >>
       /\ parser.statements =
            << ExpressionStatement(
                 SetExpression(VariableExpression(1, "a"), "b",
                               LiteralExpression(Num(1)))),
               PrintOne >>

\* the 1-based line of the character at offset `at` of the source
LineOf(at) ==
  1 + Cardinality({ i \in 1 .. at : i <= Len(scanner.source)
                                     /\ scanner.source[i] = "\n" })
Unterminated(line) == "at line " \o ToString(line) \o ": Unterminated string."
StringStarted ==
  /\ pc = "scanError"
  /\ CharAt(scanner, scanner.start) = "\""

\* C24 for the unterminated string alone: the error carries the line on
\* which the string started, as long as no string before it spans lines.
UnterminatedStringAtStartingLine ==
  (StringStarted /\ scanner.line = LineOf(scanner.start)) =>
    scanner.message = Unterminated(LineOf(scanner.start))

\* C24: the line counter counts every newline of the source, those inside
\* a string literal too: every token carries the line its first character
\* is on, also after a string that spans lines, and an unterminated string
\* is reported with the line on which it started.
TokensCarryTrueLine ==
  /\ \A i \in DOMAIN scanner.tokens :
       scanner.tokens[i].line = LineOf(scanner.starts[i])
  /\ StringStarted => scanner.message = Unterminated(LineOf(scanner.start))

\* C25: a variable expression for which the resolver recorded a depth is
\* read with getAt from the environment that many links up; one without a
\* depth is read from the globals only: it never sees a binding of a local
\* environment, and the read fails when the globals have no such name.
\* In { function f() { return a; } var a = 1; print f(); } the a of f has
\* no depth and the globals have no a, so the call must fail and print
\* nothing.
ReadWithoutDepthUsesGlobalsOnly ==
  /\ \A i \in Events("lookup") :
       /\ Trace[i].depth >= 0 => (Trace[i].target # 0 /\ Trace[i].bound)
       /\ Trace[i].depth < 0 => Trace[i].from \in {0, globals}
  /\ (scenario.family = "scope" /\ scenario.variant = "lateLocal") =>
       /\ interp.out = << >>
       /\ pc # "done"

\* the call of Environment that was made, if one was
TheCall == Trace[Len(Trace)]
\* the environments of the chain that starts at env: env, env - 1, ..., 1
\* (environment k of a chain is enclosed by environment k - 1), and of them
\* the nearest that holds the name, 0 when none does
Holders(call) ==
  { k \in 1 .. call.env : call.name \in DOMAIN call.before[k].values }
NearestHolder(call) ==
  IF Holders(call) = {} THEN 0
  ELSE CHOOSE k \in Holders(call) : \A j \in Holders(call) : j <= k
\* the two lists of environments differ at most in the name at `at`
SameBut(before, after, at, name) ==
  /\ Len(after) = Len(before)
  /\ \A k \in DOMAIN before :
       /\ after[k].enclosing = before[k].enclosing
       /\ DOMAIN after[k].values = DOMAIN before[k].values
       /\ \A n \in DOMAIN before[k].values :
            (k # at \/ n # name) =>
              Equals(after[k].values[n], before[k].values[n])

\* C26: assign(name, value) updates the binding of the nearest environment
\* of the chain that holds the name and changes nothing else; when no
\* environment of the chain holds the name it fails and changes nothing.
\* get(name) reads the binding of that same environment, and fails in the
\* same case.
AssignAndGetUseNearestBinding ==
  (scenario.family = "environment" /\ pc = "called") =>
    /\ TheCall.e = "assign" =>
         IF NearestHolder(TheCall) # 0
         THEN /\ ~TheCall.failed
              /\ SameBut(TheCall.before, TheCall.after,
                         NearestHolder(TheCall), TheCall.name)
              /\ Equals(TheCall.after[NearestHolder(TheCall)]
                           .values[TheCall.name], Assigned)
         ELSE /\ TheCall.failed
              /\ SameBut(TheCall.before, TheCall.after, 0, TheCall.name)
    /\ TheCall.e = "get" =>
         IF NearestHolder(TheCall) # 0
         THEN /\ ~TheCall.failed
              /\ Equals(TheCall.returned, Num(NearestHolder(TheCall)))
              /\ SameBut(TheCall.before, TheCall.after, 0, TheCall.name)
         ELSE /\ TheCall.failed
              /\ SameBut(TheCall.before, TheCall.after, 0, TheCall.name)

\* C26 happens: assign on the innermost of three environments changed the
\* binding of the outermost, which alone held the name
AssignedInOutermost ==
  /\ scenario.family = "environment" /\ pc = "called"
  /\ TheCall.e = "assign"
  /\ TheCall.env = 3
  /\ NearestHolder(TheCall) = 1
  /\ ~TheCall.failed
  /\ Equals(interp.envs[1].values[TheCall.name], Assigned)

\* the environment `distance` links up from the environment of the call, 0
\* when the chain is shorter, and whether it holds the name
Walked(call) == IF call.env > call.distance THEN call.env - call.distance ELSE 0
WalkedHolds(call) ==
  /\ Walked(call) # 0
  /\ call.name \in DOMAIN call.before[Walked(call)].values

\* C27 where the binding exists: getAt and assignAt walk exactly
\* `distance` links and read or write that environment, whatever the
\* environments below it hold.
AtDistanceReadsAndWritesDirectly ==
  (scenario.family = "environment" /\ pc = "called" /\ WalkedHolds(TheCall)) =>
    /\ TheCall.e = "getAt" =>
         /\ ~TheCall.failed
         /\ Equals(TheCall.returned, Num(Walked(TheCall)))
    /\ TheCall.e = "assignAt" =>
         /\ ~TheCall.failed
         /\ SameBut(TheCall.before, TheCall.after, Walked(TheCall),
                    TheCall.name)
         /\ Equals(TheCall.after[Walked(TheCall)].values[TheCall.name],
                   Assigned)

\* C27: getAt and assignAt walk exactly `distance` links and read or write
\* that environment; when the chain is shorter than distance or that
\* environment has no binding for the name, the call signals an error: it
\* does not yield nil, create a binding or do nothing.
AtDistanceFailsWithoutBinding ==
  /\ AtDistanceReadsAndWritesDirectly
  /\ (/\ scenario.family = "environment" /\ pc = "called"
      /\ TheCall.e \in {"getAt", "assignAt"}
      /\ ~WalkedHolds(TheCall)) =>
       /\ TheCall.failed
       /\ SameBut(TheCall.before, TheCall.after, 0, TheCall.name)

\* the token before the cursor c and the token at it (c is 0-based)
Before(c) == parser.tokens[c]
At(c) == parser.tokens[c + 1]
\* where synchronize may stop
StopsAt(c) ==
  \/ At(c).type = "EOF"
  \/ (c > 0 /\ Before(c).type = "Semicolon")
  \/ At(c).type \in {"Class", "Function", "Var", "For", "If", "While",
                      "Print", "Return"}
\* the first cursor from c on where synchronize may stop
FirstStop(c) ==
  CHOOSE d \in c .. Len(parser.tokens) - 1 :
    /\ StopsAt(d)
    /\ \A x \in c .. d - 1 : ~StopsAt(x)
Failed == { i \in DOMAIN parser.iterations : parser.iterations[i].failed }
\* the errors are kept, and so are the statements parsed without unwinding
ErrorsAndStatementsKept ==
  /\ Len(parser.log) = Cardinality(Failed)
  /\ Len(parser.errors) >= Len(parser.log)
  /\ \A i \in DOMAIN parser.log :
       \E j \in DOMAIN parser.errors : parser.errors[j] = parser.log[i]
  /\ Len(parser.statements) = Len(parser.iterations) - Cardinality(Failed)

\* C28 as stated: after a parse error synchronize discards at least one
\* token and stops at the first cursor after which the token just consumed
\* is `;` or the next token is class, function, var, for, if, while,
\* print, return or EOF; every error is kept in the error list and only
\* declarations parsed without unwinding are in the statement list.
SynchronizeDiscardsAToken ==
  /\ \A i \in Failed :
       /\ parser.iterations[i].to >= parser.iterations[i].at + 1
       /\ parser.iterations[i].to = FirstStop(parser.iterations[i].at + 1)
  /\ ErrorsAndStatementsKept

\* C28 amended: synchronize discards one token, none when the error was
\* raised at the EOF token, and then stops at the first cursor after which
\* the token just consumed is `;` or the next token is class, function,
\* var, for, if, while, print, return or EOF; every error is kept in the
\* error list and only declarations parsed without unwinding are in the
\* statement list.
SynchronizeStopsAtBoundary ==
  /\ \A i \in Failed :
       IF At(parser.iterations[i].at).type = "EOF"
       THEN parser.iterations[i].to = parser.iterations[i].at
       ELSE parser.iterations[i].to = FirstStop(parser.iterations[i].at + 1)
  /\ ErrorsAndStatementsKept

\* C28 happens: ( 1 ; print 1 ; : the error was raised at the first `;`,
\* synchronize stopped after it and print 1; was parsed
ResumedAfterSemicolon ==
  /\ Parsed
  /\ Len(parser.iterations) = 2
  /\ parser.iterations[1].failed /\ ~parser.iterations[2].failed
  /\ parser.iterations[1].at = 2 /\ parser.iterations[1].to = 3
  /\ Before(3).type = "Semicolon"
  /\ parser.statements = << PrintOne >>
  /\ Len(parser.errors) = 1

\* the index of the EOF token in this.tokens, counted from 0
EOFIndex == Len(parser.tokens) - 1

\* C29: parse() terminates on every token list that ends with EOF: each
\* iteration of its loop, whether the declaration was parsed or failed and
\* the parser synchronized, leaves the cursor at least one token further,
\* and the cursor is never past the index of the EOF token, so the loop runs
\* at most as many times as there are tokens before EOF and parse() returns
\* with the cursor at EOF.
ParseTerminates ==
  /\ parser.current <= EOFIndex
  /\ Len(parser.iterations) <= parser.current
  /\ \A i \in DOMAIN parser.iterations :
       /\ parser.iterations[i].to >= parser.iterations[i].from + 1
       /\ parser.iterations[i].at <= EOFIndex
       /\ parser.iterations[i].to <= EOFIndex
  /\ Parsed => parser.current = EOFIndex

\* C29 happens: ; 1 ; : the first iteration failed without consuming a token
\* and synchronize moved the cursor by one, the second parsed 1; and parse()
\* returned with the cursor at EOF
FailedIterationMovedByOne ==
  /\ Parsed
  /\ Len(parser.iterations) = 2
  /\ parser.iterations[1].failed
  /\ parser.iterations[1].at = parser.iterations[1].from
  /\ parser.iterations[1].to = parser.iterations[1].from + 1
  /\ ~parser.iterations[2].failed
  /\ parser.iterations[2].to = EOFIndex
  /\ parser.current = EOFIndex

\* the nodes the resolver visits in a program, in the order of its walk,
\* each with the number of blocks, function bodies and class scopes (one
\* for this, one more for super) around it
RECURSIVE Depths(_, _), DepthsAll(_, _, _), DepthsMethods(_, _, _)
DepthsAll(nodes, i, d) ==
  IF i > Len(nodes) THEN << >>
  ELSE Depths(nodes[i], d) \o DepthsAll(nodes, i + 1, d)
DepthsMethods(methods, i, d) ==
  IF i > Len(methods) THEN << >>
  ELSE DepthsAll(methods[i].body, 1, d + 1) \o DepthsMethods(methods, i + 1, d)
Depths(node, d) ==
  IF node.t = "null" THEN << >>
  ELSE << [t |-> node.t, depth |-> d] >> \o
       CASE node.t = "Assign" -> Depths(node.value, d)
         [] node.t \in {"Binary", "Logical"} ->
              Depths(node.left, d) \o Depths(node.right, d)
         [] node.t = "Grouping" -> Depths(node.expression, d)
         [] node.t = "Unary" -> Depths(node.right, d)
         [] node.t = "Call" ->
              Depths(node.callee, d) \o DepthsAll(node.args, 1, d)
         [] node.t = "Get" -> Depths(node.object, d)
         [] node.t = "Set" -> Depths(node.value, d) \o Depths(node.object, d)
         [] node.t \in {"Expression", "Print"} -> Depths(node.expression, d)
         [] node.t = "Var" -> Depths(node.initializer, d)
         [] node.t = "Block" -> DepthsAll(node.stmts, 1, d + 1)
         [] node.t = "If" ->
              Depths(node.condition, d) \o Depths(node.thenBranch, d)
                \o Depths(node.elseBranch, d)
         [] node.t = "While" -> Depths(node.condition, d) \o Depths(node.body, d)
         [] node.t = "Return" -> Depths(node.value, d)
         [] node.t = "Function" -> DepthsAll(node.body, 1, d + 1)
         [] node.t = "Class" ->
              Depths(node.superClass, d)
                \o DepthsMethods(node.methods, 1,
                     IF node.superClass.t = "null" THEN d + 1 ELSE d + 2)
         [] OTHER -> << >>
ProgramDepths == DepthsAll(statements, 1, 0)

\* C30: the resolver's scope operations are balanced: when resolve returns
\* without an error the scope stack is empty again and the enclosing function
\* and class kinds are NONE as before the call, and every node was visited
\* with as many scopes on the stack as there are blocks, function bodies and
\* class this/super scopes around it; when resolve throws, that holds for
\* the nodes visited up to the error.
ResolverScopesBalanced ==
  /\ Resolved =>
       /\ rs.scopes = << >>
       /\ rs.currentFunction = "NONE"
       /\ rs.currentClass = "NONE"
       /\ rs.visits = ProgramDepths
  /\ pc = "resolveError" => IsPrefix(rs.visits, ProgramDepths)

\* C30 happens: a program with a class that has a superclass and methods
\* was resolved, nodes of a method body were visited three scopes deep (the
\* scopes of super, of this and of the method) and the stack is empty
ResolvedThreeScopesDeep ==
  /\ pc = "ready"
  /\ rs.scopes = << >>
  /\ rs.currentClass = "NONE"
  /\ \E i \in DOMAIN statements :
       /\ statements[i].t = "Class"
       /\ statements[i].superClass.t # "null"
       /\ statements[i].methods # << >>
  /\ \E i \in DOMAIN rs.visits : rs.visits[i].depth >= 3

====
